---- MODULE Spec2Model ----
(***************************************************************************)
(* Demand forecasting, dynamic pricing engine and data ingestion pipeline  *)
(* of the RMS (src/src/services/pricing_engine.py,                         *)
(* src/src/services/forecasting.py, src/src/services/data_ingestion.py,    *)
(* the tables of src/src/models/database.py).                              *)
(*                                                                         *)
(* Numbers.  Python floats are modelled as fixed-point integers with six   *)
(* decimals (1.0 is Scale); products and quotients truncate toward zero.   *)
(* A float division by a zero base rate (numpy: inf or nan, no exception)  *)
(* is carried as the flag is_nan of a pricing result.                      *)
(*                                                                         *)
(* Dates.  A date is its day number counted from 2025-01-01 (day 0, a      *)
(* Wednesday); date.today() is the day Today.                              *)
(***************************************************************************)
EXTENDS Integers, Sequences, FiniteSets, TLC

VARIABLES
    room_types,         \* table room_types: rows [name, base_rate]
    inventory,          \* table inventory: rows [room_type]
    bookings,           \* table bookings: rows [room_type, checkin, created_at]
    competitor_rates,   \* table competitor_rates: rows [competitor_id, date, room_type, rate, availability]
    event_multipliers,  \* table event_multipliers: rows [date, multiplier]
    forecast_data,      \* table forecast_data: rows [room_type, date, forecasted_demand, created_at]
    price_history,      \* table price_history: rows [date, room_type, published_rate, channel, floor, ceiling, source]
    engine,             \* PricingEngine attributes: alpha, beta, gamma, delta, baseline_demand, max_lead_time
    result,             \* the value returned by the latest call of an engine operation
    callers             \* the threads sharing the engine: where each is in its calls

vars == <<room_types, inventory, bookings, competitor_rates, event_multipliers,
          forecast_data, price_history, engine, result, callers>>

store == <<room_types, inventory, bookings, competitor_rates, event_multipliers,
           forecast_data>>

----------------------------------------------------------------------------
(* Fixed-point arithmetic *)

Scale == 1000 * 1000

Abs(a) == IF a < 0 THEN -a ELSE a

Sgn(a) == IF a < 0 THEN -1 ELSE 1

Min(a, b) == IF a < b THEN a ELSE b

Max(a, b) == IF a > b THEN a ELSE b

\* n / d as a fixed-point number, for integers n and d # 0 (n * Scale must fit)
Fx(n, d) == Sgn(n) * Sgn(d) * ((Abs(n) * Scale) \div Abs(d))

\* floor(a * b / Scale) for naturals a, b, by limbs of 1000 so that no
\* intermediate product leaves the 32-bit range
MulNat(a, b) ==
    LET a2 == a \div 1000000
        a1 == (a \div 1000) % 1000
        a0 == a % 1000
        b2 == b \div 1000000
        b1 == (b \div 1000) % 1000
        b0 == b % 1000
    IN  a2 * b2 * 1000000 + (a2 * b1 + a1 * b2) * 1000
        + (a2 * b0 + a1 * b1 + a0 * b2)
        + (((a1 * b0 + a0 * b1) * 1000 + a0 * b0) \div 1000000)

\* the float product a * b
MulFx(a, b) ==
    IF a = 0 \/ b = 0 THEN 0 ELSE Sgn(a) * Sgn(b) * MulNat(Abs(a), Abs(b))

\* <<floor(a * b / c), (a * b) % c>> for naturals a, b and c > 0, by doubling
RECURSIVE MulDivQR(_, _, _)
MulDivQR(a, b, c) ==
    IF b = 0 THEN <<0, 0>>
    ELSE LET h  == MulDivQR(a, b \div 2, c)
             q2 == 2 * h[1] + ((2 * h[2]) \div c)
             r2 == (2 * h[2]) % c
         IN  IF b % 2 = 0 THEN <<q2, r2>>
             ELSE LET r3 == r2 + (a % c)
                  IN  <<q2 + (a \div c) + (r3 \div c), r3 % c>>

\* the float quotient a / b, for b # 0
DivFx(a, b) == Sgn(a) * Sgn(b) * MulDivQR(Abs(a), Scale, Abs(b))[1]

\* round(x, ndigits) for ndigits in 0..6: to the nearest multiple of
\* 10^(6 - ndigits), an exact tie going to the even multiple
RECURSIVE Pow10(_)
Pow10(n) == IF n = 0 THEN 1 ELSE 10 * Pow10(n - 1)

round(x, ndigits) ==
    LET u == Pow10(6 - ndigits)
        q == x \div u
        r == x % u
    IN  IF 2 * r < u THEN q * u
        ELSE IF 2 * r > u THEN (q + 1) * u
        ELSE IF q % 2 = 0 THEN q * u ELSE (q + 1) * u

\* clip without its upper bound
clip_lower_only(x, lo, hi) == Max(x, lo)

\* clip with the two bounds applied in the other order
clip_max_of_min(x, lo, hi) == Max(Min(x, hi), lo)

\* np.clip(x, lo, hi) == minimum(maximum(x, lo), hi)
clip(x, lo, hi) == Min(Max(x, lo), hi)

\* s[lo] + ... + s[hi], by halves
RECURSIVE SumRange(_, _, _)
SumRange(s, lo, hi) ==
    IF lo > hi THEN 0
    ELSE IF lo = hi THEN s[lo]
    ELSE SumRange(s, lo, (lo + hi) \div 2) + SumRange(s, (lo + hi) \div 2 + 1, hi)

SumSeq(s) == SumRange(s, 1, Len(s))

\* the sequence s sorted ascending (insertion sort)
RECURSIVE Insert(_, _)
Insert(x, s) ==
    IF s = <<>> THEN <<x>>
    ELSE IF x <= Head(s) THEN <<x>> \o s
    ELSE <<Head(s)>> \o Insert(x, Tail(s))

RECURSIVE SortAsc(_)
SortAsc(s) == IF s = <<>> THEN <<>> ELSE Insert(Head(s), SortAsc(Tail(s)))

\* np.median of a non-empty list: the middle value, or the mean of the two
\* middle values
median(s) ==
    LET t == SortAsc(s)
        n == Len(t)
    IN  IF n % 2 = 1 THEN t[(n + 1) \div 2]
        ELSE (t[n \div 2] + t[n \div 2 + 1]) \div 2

----------------------------------------------------------------------------
(* Dates *)

Today == 99

\* date.weekday(): Monday is 0, Sunday is 6
weekday(d) == (d + 2) % 7

MonthStarts == <<0, 31, 59, 90, 120, 151, 181, 212, 243, 273, 304, 334>>

\* date.month (2025 and 2026 are not leap years)
month(d) == Cardinality({i \in 1..12 : MonthStarts[i] <= d % 365})

----------------------------------------------------------------------------
(* Bounds and input sets *)

MaxRooms == 1          \* inventory rows of a room type: 0..MaxRooms
MaxBookings == 1       \* bookings rows of one check-in day: 0..MaxBookings
MaxPeriod == 1         \* calculate_prices_for_period ends at most this many days after its start

\* "Deluxe" has a room_types row; "Penthouse" is a name with no row
Rooms == {"Deluxe", "Penthouse"}

\* 280 (the Deluxe rate of setup_database.py), 100.02, 0 and -100
BaseRates == {Fx(280, 1), 10002 * 10000, 0, Fx(-100, 1)}

\* the dates priced and forecast
TargetDates == {Today, Today + 10}

CoefKeys == {"alpha", "beta", "gamma", "delta"}

Coefs(a, b, g, d) == [alpha |-> a, beta |-> b, gamma |-> g, delta |-> d]

\* a dict of coefficients: the keys present and their values (override_params,
\* or the non-None arguments of update_coefficients)
Params(keys, vals) == [keys |-> keys, vals |-> vals]

NoParams == Params({}, Coefs(0, 0, 0, 0))

FullParamsA == Params(CoefKeys, Coefs(Fx(1, 1), Fx(1, 2), Fx(5, 100), Fx(2, 1)))

FullParamsB == Params(CoefKeys, Coefs(Fx(1, 10), Fx(1, 10), Fx(1, 100), Fx(1, 2)))

\* override_params of a call: None, {'delta': 1.25} (the event simulation of
\* app.py), {'alpha': 1.0}, and all four keys
OverrideChoices ==
    {NoParams,
     Params({"delta"}, Coefs(0, 0, 0, Fx(125, 100))),
     Params({"alpha"}, Coefs(Fx(1, 1), 0, 0, 0)),
     FullParamsA}

\* arguments of update_coefficients
UpdateChoices == {Params({"alpha"}, Coefs(Fx(6, 10), 0, 0, 0))}

NoResult == [kind |-> "none"]

----------------------------------------------------------------------------
(* PricingEngine *)

\* PricingEngine.__init__: the coefficients and baseline settings
PricingEngineInit ==
    [alpha |-> Fx(3, 10), beta |-> Fx(25, 100), gamma |-> Fx(2, 100),
     delta |-> Fx(1, 1), baseline_demand |-> Fx(75, 100), max_lead_time |-> 365]

\* query(...).filter_by(...).count()
Count(rows) == Len(rows)

\* a base rate lookup that answers 0 for an unknown room type
get_base_rate_zero_when_unknown(room_type) ==
    LET found == SelectSeq(room_types, LAMBDA r : r.name = room_type)
    IN  IF found # <<>> THEN found[1].base_rate ELSE 0

get_base_rate(room_type) ==
    LET found == SelectSeq(room_types, LAMBDA r : r.name = room_type)
    IN  IF found # <<>> THEN found[1].base_rate ELSE Fx(300, 1)

\* a demand fallback that answers the baseline for a room type without inventory
calculate_demand_fallback_baseline_when_empty(room_type, target_date) ==
    LET booking_counts ==
            [w \in 1..4 |->
                Count(SelectSeq(bookings, LAMBDA b : b.room_type = room_type
                                           /\ b.checkin = target_date - 7 * w))]
        avg_bookings == Fx(SumSeq(booking_counts), Len(booking_counts))
        total_rooms == Count(SelectSeq(inventory, LAMBDA i : i.room_type = room_type))
    IN  IF total_rooms = 0 THEN Fx(75, 100)
        ELSE Min(avg_bookings \div total_rooms, Fx(1, 1))

calculate_demand_fallback(room_type, target_date) ==
    LET booking_counts ==
            [w \in 1..4 |->
                Count(SelectSeq(bookings, LAMBDA b : b.room_type = room_type
                                           /\ b.checkin = target_date - 7 * w))]
        avg_bookings == Fx(SumSeq(booking_counts), Len(booking_counts))
        total_rooms == Count(SelectSeq(inventory, LAMBDA i : i.room_type = room_type))
    IN  Min(avg_bookings \div Max(total_rooms, 1), Fx(1, 1))

get_forecasted_demand(room_type, target_date) ==
    LET found == SelectSeq(forecast_data,
                           LAMBDA f : f.room_type = room_type /\ f.date = target_date)
    IN  IF found # <<>> THEN found[1].forecasted_demand
        ELSE calculate_demand_fallback(room_type, target_date)

\* the rates of the competitor rows of (room_type, target_date) flagged available
available_rates(room_type, target_date) ==
    LET found == SelectSeq(competitor_rates,
                           LAMBDA c : c.room_type = room_type /\ c.date = target_date
                                      /\ c.availability)
    IN  [i \in 1..Len(found) |-> found[i].rate]

\* get_competitor_index divides by a zero base rate: the float result is inf or nan
competitor_index_undefined(room_type, target_date) ==
    available_rates(room_type, target_date) # <<>> /\ get_base_rate(room_type) = 0

\* a competitor index over all the rows of the day, available or not
get_competitor_index_all_rates(room_type, target_date) ==
    LET found == SelectSeq(competitor_rates,
                           LAMBDA c : c.room_type = room_type /\ c.date = target_date)
        rates == [i \in 1..Len(found) |-> found[i].rate]
    IN  IF rates # <<>> /\ get_base_rate(room_type) # 0
        THEN DivFx(median(rates), get_base_rate(room_type))
        ELSE Fx(1, 1)

get_competitor_index(room_type, target_date) ==
    LET rates == available_rates(room_type, target_date)
    IN  IF rates # <<>> /\ get_base_rate(room_type) # 0
        THEN DivFx(median(rates), get_base_rate(room_type))
        ELSE Fx(1, 1)

get_event_multiplier(target_date) ==
    LET found == SelectSeq(event_multipliers, LAMBDA e : e.date = target_date)
    IN  IF found # <<>> THEN found[1].multiplier ELSE Fx(1, 1)

\* a time factor without the scaling to at most 0.1
calculate_time_factor_unscaled(self, target_date) ==
    LET lead_time_days == target_date - Today
    IN  IF lead_time_days <= 0 THEN 0
        ELSE Min(Fx(lead_time_days, self.max_lead_time), Fx(1, 1))

calculate_time_factor(self, target_date) ==
    LET lead_time_days == target_date - Today
    IN  IF lead_time_days <= 0 THEN 0
        ELSE Min(Fx(lead_time_days, self.max_lead_time), Fx(1, 1)) \div 10

get_floor_ceiling(room_type) ==
    [floor   |-> MulFx(get_base_rate(room_type), Fx(7, 10)),
     ceiling |-> MulFx(get_base_rate(room_type), Fx(15, 10))]

\* a coefficient taken from the engine whatever override_params holds
coefficient_from_engine(self, override_params, key) == self[key]

\* override_params.get(key, 0): a key that is absent counts as zero
coefficient_zero_when_absent(self, override_params, key) ==
    IF key \in override_params.keys THEN override_params.vals[key] ELSE 0

\* override_params.get(key, self.key) if override_params else self.key
coefficient(self, override_params, key) ==
    IF key \in override_params.keys THEN override_params.vals[key] ELSE self[key]

\* the pricing formula with the operands of the demand term exchanged
pricing_formula_demand_swapped(self, base_rate, forecasted_demand, competitor_index, event_multiplier, time_factor, c) ==
    LET demand_factor     == Scale + MulFx(c.alpha, self.baseline_demand - forecasted_demand)
        competitor_factor == Scale + MulFx(c.beta, competitor_index - Scale)
        event_factor      == Scale + MulFx(c.delta, event_multiplier - Scale)
        time_discount_factor == Scale - MulFx(c.gamma, time_factor)
    IN  [demand_factor        |-> demand_factor,
         competitor_factor    |-> competitor_factor,
         event_factor         |-> event_factor,
         time_discount_factor |-> time_discount_factor,
         raw_price |-> MulFx(MulFx(MulFx(MulFx(base_rate, demand_factor),
                                         competitor_factor),
                                   event_factor), time_discount_factor)]

\* the pricing formula of calculate_dynamic_price: the factors and the raw price
\* (the unrounded local variables of the computation); self is the engine's
\* attributes
pricing_formula(self, base_rate, forecasted_demand, competitor_index, event_multiplier, time_factor, c) ==
    LET demand_factor     == Scale + MulFx(c.alpha, forecasted_demand - self.baseline_demand)
        competitor_factor == Scale + MulFx(c.beta, competitor_index - Scale)
        event_factor      == Scale + MulFx(c.delta, event_multiplier - Scale)
        time_discount_factor == Scale - MulFx(c.gamma, time_factor)
    IN  [demand_factor        |-> demand_factor,
         competitor_factor    |-> competitor_factor,
         event_factor         |-> event_factor,
         time_discount_factor |-> time_discount_factor,
         raw_price |-> MulFx(MulFx(MulFx(MulFx(base_rate, demand_factor),
                                         competitor_factor),
                                   event_factor), time_discount_factor)]

\* the dict calculate_dynamic_price returns, with the call's arguments (args)
\* and the unrounded local variables of the computation (locals)
calculate_dynamic_price(self, room_type, target_date, override_params) ==
    LET c == Coefs(coefficient(self, override_params, "alpha"),
                   coefficient(self, override_params, "beta"),
                   coefficient(self, override_params, "gamma"),
                   coefficient(self, override_params, "delta"))
        base_rate         == get_base_rate(room_type)
        forecasted_demand == get_forecasted_demand(room_type, target_date)
        competitor_index  == get_competitor_index(room_type, target_date)
        event_multiplier  == get_event_multiplier(target_date)
        time_factor       == calculate_time_factor(self, target_date)
        fc                == get_floor_ceiling(room_type)
        f == pricing_formula(self, base_rate, forecasted_demand, competitor_index,
                             event_multiplier, time_factor, c)
        final_price == clip(f.raw_price, fc.floor, fc.ceiling)
    IN  [kind        |-> "price",
         args        |-> [room_type |-> room_type, target_date |-> target_date,
                          override_params |-> override_params],
         is_nan      |-> competitor_index_undefined(room_type, target_date),
         room_type   |-> room_type,
         date        |-> target_date,
         base_rate   |-> base_rate,
         final_price |-> round(final_price, 2),
         raw_price   |-> round(f.raw_price, 2),
         floor       |-> fc.floor,
         ceiling     |-> fc.ceiling,
         components  |-> [forecasted_demand    |-> round(forecasted_demand, 3),
                          competitor_index     |-> round(competitor_index, 3),
                          event_multiplier     |-> round(event_multiplier, 3),
                          time_factor          |-> round(time_factor, 3),
                          demand_factor        |-> round(f.demand_factor, 3),
                          competitor_factor    |-> round(f.competitor_factor, 3),
                          event_factor         |-> round(f.event_factor, 3),
                          time_discount_factor |-> round(f.time_discount_factor, 3)],
         coefficients |-> c,
         locals      |-> [forecasted_demand |-> forecasted_demand,
                          competitor_index  |-> competitor_index,
                          event_multiplier  |-> event_multiplier,
                          time_factor       |-> time_factor,
                          demand_factor     |-> f.demand_factor,
                          raw_price         |-> f.raw_price]]

\* a period that stops the day before end_date
RECURSIVE calculate_prices_for_period_end_exclusive(_, _, _, _, _)
calculate_prices_for_period_end_exclusive(self, room_type, start_date, end_date, override_params) ==
    IF start_date >= end_date THEN <<>>
    ELSE <<calculate_dynamic_price(self, room_type, start_date, override_params)>>
         \o calculate_prices_for_period_end_exclusive(self, room_type, start_date + 1,
                                                      end_date, override_params)

\* the list calculate_prices_for_period returns: one calculate_dynamic_price
\* per day from start_date to end_date
RECURSIVE calculate_prices_for_period(_, _, _, _, _)
calculate_prices_for_period(self, room_type, start_date, end_date, override_params) ==
    IF start_date > end_date THEN <<>>
    ELSE <<calculate_dynamic_price(self, room_type, start_date, override_params)>>
         \o calculate_prices_for_period(self, room_type, start_date + 1, end_date,
                                        override_params)

----------------------------------------------------------------------------
(* ForecastingEngine *)

\* ForecastingEngine.__init__: the model parameters
smoothing_alpha == Fx(3, 10)

lookback_days == 90

\* np.mean of a non-empty list
mean(s) == LET total == SumSeq(s) IN Sgn(total) * (Abs(total) \div Len(s))

\* the list [dp['occupancy'] for dp in historical_data]
occupancy_values(historical_data) ==
    [i \in 1..Len(historical_data) |-> historical_data[i].occupancy]

\* one entry per day from today - lookback_days to today
\* an occupancy series with entries for the days that have bookings only
get_historical_bookings_booked_days_only(room_type) ==
    LET start_date  == Today - lookback_days
        total_rooms == Count(SelectSeq(inventory, LAMBDA i : i.room_type = room_type))
        booked == SelectSeq([n \in 1..(lookback_days + 1) |-> start_date + n - 1],
                            LAMBDA d : \E i \in 1..Len(bookings) :
                                           bookings[i].room_type = room_type
                                           /\ bookings[i].checkin = d)
    IN  [n \in 1..Len(booked) |->
            LET bookings_count == Count(SelectSeq(bookings,
                                        LAMBDA b : b.room_type = room_type
                                                   /\ b.checkin = booked[n]))
            IN  [date      |-> booked[n],
                 occupancy |-> Fx(bookings_count, Max(total_rooms, 1)),
                 bookings  |-> bookings_count]]

get_historical_bookings(room_type) ==
    LET start_date  == Today - lookback_days
        total_rooms == Count(SelectSeq(inventory, LAMBDA i : i.room_type = room_type))
    IN  [n \in 1..(lookback_days + 1) |->
            LET current_date   == start_date + n - 1
                bookings_count == Count(SelectSeq(bookings,
                                        LAMBDA b : b.room_type = room_type
                                                   /\ b.checkin = current_date))
            IN  [date      |-> current_date,
                 occupancy |-> Fx(bookings_count, Max(total_rooms, 1)),
                 bookings  |-> bookings_count]]

\* the mean occupancy of the days of historical_data in the group of
\* target_date (its month, its weekday) over the overall mean occupancy
group_factor(same, historical_data) ==
    IF historical_data = <<>> \/ same = <<>> THEN Fx(1, 1)
    ELSE DivFx(mean(occupancy_values(same)),
               Max(mean(occupancy_values(historical_data)), Fx(1, 100)))

calculate_seasonality(target_date, historical_data) ==
    group_factor(SelectSeq(historical_data,
                           LAMBDA dp : month(dp.date) = month(target_date)),
                 historical_data)

calculate_dow_factor(target_date, historical_data) ==
    group_factor(SelectSeq(historical_data,
                           LAMBDA dp : weekday(dp.date) = weekday(target_date)),
                 historical_data)

\* the slope of the least-squares line through (0, y[1]), ..., (n - 1, y[n]),
\* times 10: 20 * sum((2x - (n - 1)) * y) / sum((2x - (n - 1))^2)
slope_times_10(y) ==
    LET n   == Len(y)
        num == SumSeq([i \in 1..n |-> (2 * (i - 1) - (n - 1)) * y[i]])
        den == SumSeq([i \in 1..n |-> (2 * (i - 1) - (n - 1)) * (2 * (i - 1) - (n - 1))])
    IN  Sgn(num) * MulDivQR(Abs(num), 20, den)[1]

calculate_trend(historical_data) ==
    IF Len(historical_data) < 7 THEN Fx(1, 1)
    ELSE clip(Fx(1, 1) + slope_times_10(occupancy_values(historical_data)),
              Fx(8, 10), Fx(12, 10))

\* a lead-time factor whose mean is taken over all the bookings of the room
\* type, whenever they were created
calculate_lead_time_impact_all_bookings(room_type, target_date) ==
    LET lead_time_days == target_date - Today
        recent == SelectSeq(bookings, LAMBDA b : b.room_type = room_type)
        historical_lead_times ==
            [i \in 1..Len(recent) |-> Fx(recent[i].checkin - recent[i].created_at, 1)]
        avg_lead_time == mean(historical_lead_times)
    IN  IF lead_time_days <= 0 THEN Fx(11, 10)
        ELSE IF recent = <<>> THEN Fx(1, 1)
        ELSE IF Fx(lead_time_days, 1) < MulFx(avg_lead_time, Fx(5, 10)) THEN Fx(105, 100)
        ELSE IF Fx(lead_time_days, 1) > 2 * avg_lead_time THEN Fx(95, 100)
        ELSE Fx(1, 1)

calculate_lead_time_impact(room_type, target_date) ==
    LET lead_time_days == target_date - Today
        recent == SelectSeq(bookings, LAMBDA b : b.room_type = room_type
                                                 /\ b.created_at >= Today - 60)
        historical_lead_times ==
            [i \in 1..Len(recent) |-> Fx(recent[i].checkin - recent[i].created_at, 1)]
        avg_lead_time == mean(historical_lead_times)
    IN  IF lead_time_days <= 0 THEN Fx(11, 10)
        ELSE IF recent = <<>> THEN Fx(1, 1)
        ELSE IF Fx(lead_time_days, 1) < MulFx(avg_lead_time, Fx(5, 10)) THEN Fx(105, 100)
        ELSE IF Fx(lead_time_days, 1) > 2 * avg_lead_time THEN Fx(95, 100)
        ELSE Fx(1, 1)

\* the mean of all the competitor rates of the day against the base rate; a
\* zero base rate makes the ratio inf, -inf or nan, which compare as such
get_competitor_impact(room_type, target_date) ==
    LET found == SelectSeq(competitor_rates,
                           LAMBDA c : c.room_type = room_type /\ c.date = target_date)
        our   == SelectSeq(room_types, LAMBDA r : r.name = room_type)
        competitor_avg == mean([i \in 1..Len(found) |-> found[i].rate])
        base_rate == our[1].base_rate
        above == IF base_rate = 0 THEN competitor_avg > 0
                 ELSE DivFx(competitor_avg, base_rate) > Fx(11, 10)
        below == IF base_rate = 0 THEN competitor_avg < 0
                 ELSE DivFx(competitor_avg, base_rate) < Fx(9, 10)
    IN  IF found = <<>> \/ our = <<>> THEN Fx(1, 1)
        ELSE IF above THEN Fx(105, 100)
        ELSE IF below THEN Fx(95, 100)
        ELSE Fx(1, 1)

get_event_impact(target_date) ==
    LET found == SelectSeq(event_multipliers, LAMBDA e : e.date = target_date)
    IN  IF found # <<>> THEN Min(found[1].multiplier, Fx(15, 10)) ELSE Fx(1, 1)

\* the loop of _exponential_smoothing_forecast over values[lo..hi], entered
\* with smoothed: the loop over the first half, then the loop over the second
\* half entered with the result of the first
RECURSIVE smoothing_loop(_, _, _, _)
smoothing_loop(values, lo, hi, smoothed) ==
    IF lo > hi THEN smoothed
    ELSE IF lo = hi
    THEN MulFx(smoothing_alpha, values[lo])
         + MulFx(Fx(1, 1) - smoothing_alpha, smoothed)
    ELSE CHOOSE r \in {smoothing_loop(values, (lo + hi) \div 2 + 1, hi, s) :
                        s \in {smoothing_loop(values, lo, (lo + hi) \div 2, smoothed)}} :
             TRUE

exponential_smoothing_forecast(historical_data) ==
    IF historical_data = <<>> THEN Fx(75, 100)
    ELSE smoothing_loop(occupancy_values(historical_data), 2, Len(historical_data),
                        historical_data[1].occupancy)

\* what fitting the random forest and predicting can do: raise, or predict a
\* value between the smallest and the largest training target (the occupancies
\* of all but the last seven days); of these the largest is modelled
MLOutcomes(historical_data) ==
    LET targets == {historical_data[i].occupancy : i \in 1..(Len(historical_data) - 7)}
    IN  {[raises |-> TRUE, prediction |-> 0]}
        \cup {[raises |-> FALSE, prediction |-> t] :
                 t \in {u \in targets : \A v \in targets : u >= v}}

\* a model forecast that answers the 0.75 default when fitting raises
ml_demand_forecast_default_on_failure(room_type, target_date, historical_data, ml) ==
    IF Len(historical_data) < 30 THEN Fx(75, 100)
    ELSE IF Len(historical_data) - 7 < 10 THEN Fx(75, 100)
    ELSE IF ml.raises THEN Fx(75, 100)
    ELSE clip(ml.prediction, 0, Fx(1, 1))

ml_demand_forecast(room_type, target_date, historical_data, ml) ==
    IF Len(historical_data) < 30 THEN Fx(75, 100)
    ELSE IF Len(historical_data) - 7 < 10 THEN Fx(75, 100)
    ELSE IF ml.raises THEN exponential_smoothing_forecast(historical_data)
    ELSE clip(ml.prediction, 0, Fx(1, 1))

fallback_forecast(room_type, target_date) ==
    LET weekend == weekday(target_date) >= 5
        baseline_demand == IF weekend THEN MulFx(Fx(75, 100), Fx(11, 10))
                           ELSE Fx(75, 100)
    IN  [kind              |-> "forecast",
         room_type         |-> room_type,
         target_date       |-> target_date,
         forecasted_demand |-> baseline_demand,
         components |-> [base_demand        |-> baseline_demand,
                         seasonality_factor |-> Fx(1, 1),
                         trend_factor       |-> Fx(1, 1),
                         day_of_week_factor |-> IF weekend THEN Fx(11, 10) ELSE Fx(1, 1),
                         lead_time_factor   |-> Fx(1, 1),
                         competitor_factor  |-> Fx(1, 1),
                         event_factor       |-> Fx(1, 1)],
         confidence        |-> Fx(5, 10),
         model_used        |-> "fallback"]

\* np.var: the mean squared deviation from the mean
variance(values) ==
    LET m == mean(values)
    IN  mean([i \in 1..Len(values) |-> MulFx(values[i] - m, values[i] - m)])

\* a confidence reduced by the variance of the series, not by twice the variance
calculate_confidence_variance_undoubled(historical_data, forecast) ==
    IF Len(historical_data) < 7 THEN Fx(3, 10)
    ELSE Max(Fx(1, 1) - Min(variance(occupancy_values(historical_data)), Fx(7, 10)),
             Fx(3, 10))

calculate_confidence(historical_data, forecast) ==
    IF Len(historical_data) < 7 THEN Fx(3, 10)
    ELSE Max(Fx(1, 1) - Min(2 * variance(occupancy_values(historical_data)),
                            Fx(7, 10)),
             Fx(3, 10))

\* the dict calculate_demand_forecast returns; ml is what the random forest
\* does when it is used
calculate_demand_forecast(room_type, target_date, use_ml, ml) ==
    LET historical_data    == get_historical_bookings(room_type)
        seasonality_factor == calculate_seasonality(target_date, historical_data)
        trend_factor       == calculate_trend(historical_data)
        day_of_week_factor == calculate_dow_factor(target_date, historical_data)
        lead_time_factor   == calculate_lead_time_impact(room_type, target_date)
        competitor_factor  == get_competitor_impact(room_type, target_date)
        event_factor       == get_event_impact(target_date)
        base_demand ==
            IF use_ml /\ Len(historical_data) >= 30
            THEN ml_demand_forecast(room_type, target_date, historical_data, ml)
            ELSE exponential_smoothing_forecast(historical_data)
        final_demand ==
            clip(MulFx(MulFx(MulFx(MulFx(MulFx(MulFx(base_demand, seasonality_factor),
                                               trend_factor),
                                         day_of_week_factor),
                                   competitor_factor),
                             event_factor),
                       lead_time_factor),
                 0, Fx(1, 1))
    IN  IF Len(historical_data) < 14 THEN fallback_forecast(room_type, target_date)
        ELSE [kind              |-> "forecast",
              room_type         |-> room_type,
              target_date       |-> target_date,
              forecasted_demand |-> final_demand,
              components |-> [base_demand        |-> base_demand,
                              seasonality_factor |-> seasonality_factor,
                              trend_factor       |-> trend_factor,
                              day_of_week_factor |-> day_of_week_factor,
                              lead_time_factor   |-> lead_time_factor,
                              competitor_factor  |-> competitor_factor,
                              event_factor       |-> event_factor],
              confidence |-> calculate_confidence(historical_data, final_demand),
              model_used |-> IF use_ml /\ Len(historical_data) >= 30 THEN "ml"
                             ELSE "exponential_smoothing"]

\* base_revenue, scenario_revenue and their difference (percentage_impact is
\* left out of the model)
calculate_revenue_impact(room_type, scenario_demand, base_demand) ==
    LET base_rate   == get_base_rate(room_type)
        total_rooms == Count(SelectSeq(inventory, LAMBDA i : i.room_type = room_type))
        base_revenue     == MulFx(base_demand * total_rooms, base_rate)
        scenario_revenue == MulFx(scenario_demand * total_rooms, base_rate)
    IN  [base_revenue       |-> base_revenue,
         scenario_revenue   |-> scenario_revenue,
         revenue_difference |-> scenario_revenue - base_revenue]

\* the dict d with d[k] = v
Put(d, k, v) == [x \in (DOMAIN d) \cup {k} |-> IF x = k THEN v ELSE d[x]]

EmptyDict == [x \in {} |-> 0]

\* the loop of generate_demand_scenarios with another probability for 'base'
RECURSIVE scenario_loop_base_half(_, _, _, _, _, _)
scenario_loop_base_half(room_type, base_demand, scenarios, i, local, scenario_results) ==
    IF i > Len(scenarios)
    THEN [raised |-> FALSE, scenario_results |-> scenario_results]
    ELSE LET scenario == scenarios[i]
             set == IF scenario = "low"
                    THEN [bound |-> TRUE, demand |-> MulFx(base_demand, Fx(8, 10)),
                          probability |-> Fx(2, 10)]
                    ELSE IF scenario = "base"
                    THEN [bound |-> TRUE, demand |-> base_demand,
                          probability |-> Fx(5, 10)]
                    ELSE IF scenario = "high"
                    THEN [bound |-> TRUE, demand |-> MulFx(base_demand, Fx(13, 10)),
                          probability |-> Fx(2, 10)]
                    ELSE local
         IN  IF ~set.bound
             THEN [raised |-> TRUE, scenario_results |-> scenario_results]
             ELSE scenario_loop_base_half(room_type, base_demand, scenarios, i + 1, set,
                      Put(scenario_results, scenario,
                          [demand         |-> Min(set.demand, Fx(1, 1)),
                           probability    |-> set.probability,
                           revenue_impact |->
                               calculate_revenue_impact(room_type, set.demand,
                                                        base_demand)]))

\* the loop of generate_demand_scenarios from its i-th scenario on; local holds
\* the loop's variables demand and probability, which an unknown scenario name
\* leaves as the previous iteration set them, or unbound on the first
RECURSIVE scenario_loop(_, _, _, _, _, _)
scenario_loop(room_type, base_demand, scenarios, i, local, scenario_results) ==
    IF i > Len(scenarios)
    THEN [raised |-> FALSE, scenario_results |-> scenario_results]
    ELSE LET scenario == scenarios[i]
             set == IF scenario = "low"
                    THEN [bound |-> TRUE, demand |-> MulFx(base_demand, Fx(8, 10)),
                          probability |-> Fx(2, 10)]
                    ELSE IF scenario = "base"
                    THEN [bound |-> TRUE, demand |-> base_demand,
                          probability |-> Fx(6, 10)]
                    ELSE IF scenario = "high"
                    THEN [bound |-> TRUE, demand |-> MulFx(base_demand, Fx(13, 10)),
                          probability |-> Fx(2, 10)]
                    ELSE local
         IN  IF ~set.bound
             THEN [raised |-> TRUE, scenario_results |-> scenario_results]
             ELSE scenario_loop(room_type, base_demand, scenarios, i + 1, set,
                      Put(scenario_results, scenario,
                          [demand         |-> Min(set.demand, Fx(1, 1)),
                           probability    |-> set.probability,
                           revenue_impact |->
                               calculate_revenue_impact(room_type, set.demand,
                                                        base_demand)]))

\* the dict generate_demand_scenarios returns, or the UnboundLocalError it
\* raises
generate_demand_scenarios(room_type, target_date, scenarios, ml) ==
    LET base_demand ==
            calculate_demand_forecast(room_type, target_date, TRUE, ml).forecasted_demand
        loop == scenario_loop(room_type, base_demand, scenarios, 1,
                              [bound |-> FALSE, demand |-> 0, probability |-> 0],
                              EmptyDict)
    IN  IF loop.raised THEN [kind |-> "error", error |-> "UnboundLocalError"]
        ELSE [kind          |-> "scenarios",
              room_type     |-> room_type,
              target_date   |-> target_date,
              base_forecast |-> base_demand,
              scenarios     |-> loop.scenario_results]

\* a forecast lookup that takes the row created first
latest_forecast_oldest_first(room_type, date) ==
    LET found == SelectSeq(forecast_data,
                           LAMBDA f : f.room_type = room_type /\ f.date = date)
    IN  SelectSeq(found, LAMBDA f : \A i \in 1..Len(found) :
                                        found[i].created_at >= f.created_at)

\* the forecast_data row of (room_type, date) created last, in a sequence of
\* at most one row; <<>> when there is none
latest_forecast(room_type, date) ==
    LET found == SelectSeq(forecast_data,
                           LAMBDA f : f.room_type = room_type /\ f.date = date)
    IN  SelectSeq(found, LAMBDA f : \A i \in 1..Len(found) :
                                        found[i].created_at <= f.created_at)

\* the dict update_forecast_accuracy returns, or None; percentage_error and
\* accuracy_score are percentages with four decimals (100 % is Scale)
update_forecast_accuracy(room_type, actual_date) ==
    LET actual_bookings == Count(SelectSeq(bookings, LAMBDA b : b.room_type = room_type
                                                      /\ b.checkin = actual_date))
        total_inventory  == Count(SelectSeq(inventory, LAMBDA i : i.room_type = room_type))
        actual_occupancy == Fx(actual_bookings, Max(total_inventory, 1))
        forecast_record  == latest_forecast(room_type, actual_date)
        predicted_demand == forecast_record[1].forecasted_demand
        error            == Abs(predicted_demand - actual_occupancy)
        error_pct        == DivFx(error, Max(actual_occupancy, Fx(1, 100)))
    IN  IF forecast_record = <<>> THEN [kind |-> "none"]
        ELSE [kind             |-> "accuracy",
              room_type        |-> room_type,
              date             |-> actual_date,
              predicted_demand |-> predicted_demand,
              actual_occupancy |-> actual_occupancy,
              absolute_error   |-> error,
              percentage_error |-> error_pct,
              accuracy_score   |-> Max(0, Scale - error_pct)]

\* the distinct values of the set S of integers in ascending order
RECURSIVE sorted_values(_)
sorted_values(S) ==
    IF S = {} THEN <<>>
    ELSE LET least == CHOOSE x \in S : \A y \in S : x <= y
         IN  <<least>> \o sorted_values(S \ {least})

\* a velocity trend that classifies a series of fewer than 7 entries too
calculate_velocity_trend_of_any_length(daily_bookings) ==
    LET n == Len(daily_bookings)
        recent_sum  == SumRange(daily_bookings, Max(n - 6, 1), n)
        earlier_sum == SumRange(daily_bookings, 1, Min(7, n))
    IN  IF 10 * recent_sum > 11 * earlier_sum THEN "accelerating"
        ELSE IF 10 * recent_sum < 9 * earlier_sum THEN "decelerating"
        ELSE "stable"

\* daily_bookings.tail(7).mean() against daily_bookings.head(7).mean() * 1.1
\* and * 0.9: both means are sums of 7 counts over 7, compared here as
\* integers (for the sums of 7 to 21 the float comparison gives the same)
calculate_velocity_trend(daily_bookings) ==
    LET n == Len(daily_bookings)
        recent_sum  == SumRange(daily_bookings, n - 6, n)
        earlier_sum == SumRange(daily_bookings, 1, 7)
    IN  IF n < 7 THEN "insufficient_data"
        ELSE IF 10 * recent_sum > 11 * earlier_sum THEN "accelerating"
        ELSE IF 10 * recent_sum < 9 * earlier_sum THEN "decelerating"
        ELSE "stable"

\* the dict analyze_booking_patterns returns: the number of bookings
\* analysed, the lead-time distribution and the velocity trend (the channel,
\* weekday, month and rate statistics are left out of the model); room_type
\* None is the empty string
analyze_booking_patterns(room_type, days_back) ==
    LET end_date   == Today
        start_date == end_date - days_back
        analysed == SelectSeq(bookings,
                              LAMBDA b : /\ b.created_at >= start_date
                                         /\ b.created_at <= end_date
                                         /\ (room_type = "" \/ b.room_type = room_type))
        lead_time == [i \in 1..Len(analysed) |-> analysed[i].checkin - analysed[i].created_at]
        booking_dates == sorted_values({analysed[i].created_at : i \in 1..Len(analysed)})
        daily_bookings ==
            [k \in 1..Len(booking_dates) |->
                Cardinality({i \in 1..Len(analysed) :
                                analysed[i].created_at = booking_dates[k]})]
    IN  IF analysed = <<>> THEN [kind |-> "error", error |-> "No booking data found"]
        ELSE [kind           |-> "patterns",
              total_bookings |-> Len(analysed),
              lead_time_distribution |->
                  [same_day  |-> Cardinality({i \in 1..Len(analysed) : lead_time[i] = 0}),
                   days_1_7  |-> Cardinality({i \in 1..Len(analysed) :
                                                 lead_time[i] >= 1 /\ lead_time[i] <= 7}),
                   days_8_30 |-> Cardinality({i \in 1..Len(analysed) :
                                                 lead_time[i] >= 8 /\ lead_time[i] <= 30}),
                   days_31   |-> Cardinality({i \in 1..Len(analysed) : lead_time[i] > 30})],
              booking_velocity_trend |-> calculate_velocity_trend(daily_bookings)]

----------------------------------------------------------------------------
(* The stored data *)

Rows(n, row) == [i \in 1..n |-> row]

CompetitorRow(competitor_id, date, room_type, rate, availability) ==
    [competitor_id |-> competitor_id, date |-> date, room_type |-> room_type,
     rate |-> rate, availability |-> availability]

\* the competitor_rates table the runs start from: for Today a low available
\* rate and a high one flagged unavailable, for Today + 10 no row
InitialCompetitorRates ==
    <<CompetitorRow("Voco-Dubai", Today, "Deluxe", Fx(140, 1), TRUE),
      CompetitorRow("Movenpick-BB", Today, "Deluxe", Fx(420, 1), FALSE)>>

\* the forecast_data table the runs start from: a row for Today + 10, two
\* for Today - 7 (the second created later, with another demand), none for
\* Today
InitialForecastData ==
    <<[room_type |-> "Deluxe", date |-> Today + 10, forecasted_demand |-> Fx(90, 100),
       created_at |-> Today - 1],
      [room_type |-> "Deluxe", date |-> Today - 7, forecasted_demand |-> Fx(80, 100),
       created_at |-> Today - 20],
      [room_type |-> "Deluxe", date |-> Today - 7, forecasted_demand |-> Fx(60, 100),
       created_at |-> Today - 8]>>

Init ==
    /\ \E b \in BaseRates : room_types = <<[name |-> "Deluxe", base_rate |-> b]>>
    /\ \E n \in 0..MaxRooms : inventory = Rows(n, [room_type |-> "Deluxe"])
    /\ \E n \in 0..MaxBookings :
          bookings = Rows(n, [room_type |-> "Deluxe", checkin |-> Today - 7,
                              created_at |-> Today - 10])
    /\ competitor_rates = InitialCompetitorRates
    /\ event_multipliers = <<[date |-> Today + 10, multiplier |-> Fx(125, 100)]>>
    /\ forecast_data = InitialForecastData
    /\ price_history = <<>>
    /\ engine = PricingEngineInit
    /\ result = NoResult
    /\ callers = <<>>

----------------------------------------------------------------------------
(* Calls of the pricing engine *)

\* the engine's attributes with the coefficients of params stored in them
with_coefficients(self, params) ==
    [k \in DOMAIN self |-> IF k \in params.keys THEN params.vals[k] ELSE self[k]]

\* a calculate_dynamic_price that stores its override_params in the engine
CalculateDynamicPrice_storing_overrides(room_type, target_date, override_params) ==
    /\ result' = calculate_dynamic_price(engine, room_type, target_date, override_params)
    /\ engine' = with_coefficients(engine, override_params)
    /\ UNCHANGED <<room_types, inventory, bookings, competitor_rates, event_multipliers,
                   forecast_data, price_history, callers>>

CalculateDynamicPrice(room_type, target_date, override_params) ==
    /\ result' = calculate_dynamic_price(engine, room_type, target_date, override_params)
    /\ UNCHANGED <<room_types, inventory, bookings, competitor_rates, event_multipliers,
                   forecast_data, price_history, engine, callers>>

\* a calculate_prices_for_period that stores its override_params in the engine
CalculatePricesForPeriod_storing_overrides(room_type, start_date, end_date, override_params) ==
    /\ result' = [kind   |-> "period",
                  args   |-> [room_type |-> room_type, start_date |-> start_date,
                              end_date |-> end_date, override_params |-> override_params],
                  prices |-> calculate_prices_for_period(engine, room_type, start_date,
                                                         end_date, override_params)]
    /\ engine' = with_coefficients(engine, override_params)
    /\ UNCHANGED <<room_types, inventory, bookings, competitor_rates, event_multipliers,
                   forecast_data, price_history, callers>>

CalculatePricesForPeriod(room_type, start_date, end_date, override_params) ==
    /\ result' = [kind   |-> "period",
                  args   |-> [room_type |-> room_type, start_date |-> start_date,
                              end_date |-> end_date, override_params |-> override_params],
                  prices |-> calculate_prices_for_period(engine, room_type, start_date,
                                                         end_date, override_params)]
    /\ UNCHANGED <<room_types, inventory, bookings, competitor_rates, event_multipliers,
                   forecast_data, price_history, engine, callers>>

\* each argument that is not None replaces the stored coefficient; returns None
update_coefficients(params) ==
    /\ engine' = with_coefficients(engine, params)
    /\ result' = NoResult
    /\ UNCHANGED <<room_types, inventory, bookings, competitor_rates, event_multipliers,
                   forecast_data, price_history, callers>>

Next ==
    \/ \E r \in Rooms, d \in TargetDates, o \in OverrideChoices :
          CalculateDynamicPrice(r, d, o)
    \/ \E e \in (Today - 1)..(Today + MaxPeriod), o \in {NoParams, FullParamsA} :
          CalculatePricesForPeriod("Deluxe", Today, e, o)
    \/ \E p \in UpdateChoices : update_coefficients(p)

Spec == Init /\ [][Next]_vars

----------------------------------------------------------------------------
(* Calls of the forecasting engine *)

\* the dates forecast: today, a Sunday with an event, a Saturday of a month
\* the lookback window does not reach
ForecastDates == {Today, Today + 10, Today + 30}

\* the scenarios arguments: the default, the three names in another order
\* with one repeated, two of the three names, an unknown name after a known
\* one, an unknown name first
ScenarioChoices ==
    {<<"low", "base", "high">>, <<"high", "low", "base", "low">>, <<"base", "high">>,
     <<"low", "optimistic">>, <<"optimistic">>}

\* the days whose forecast accuracy is asked for: the check-in day of the
\* stored bookings, which has a forecast row, and today, which has none
AccuracyDates == {Today - 7, Today}

CalculateDemandForecast(room_type, target_date, use_ml) ==
    /\ \E ml \in (IF use_ml THEN MLOutcomes(get_historical_bookings(room_type))
                  ELSE {[raises |-> FALSE, prediction |-> 0]}) :
          result' = [args |-> [room_type |-> room_type, target_date |-> target_date,
                               use_ml |-> use_ml, ml |-> ml]]
                    @@ calculate_demand_forecast(room_type, target_date, use_ml, ml)
    /\ UNCHANGED <<room_types, inventory, bookings, competitor_rates, event_multipliers,
                   forecast_data, price_history, engine, callers>>

GenerateDemandScenarios(room_type, target_date, scenarios) ==
    /\ \E ml \in MLOutcomes(get_historical_bookings(room_type)) :
          result' = [args |-> [room_type |-> room_type, target_date |-> target_date,
                               scenarios |-> scenarios, ml |-> ml]]
                    @@ generate_demand_scenarios(room_type, target_date, scenarios, ml)
    /\ UNCHANGED <<room_types, inventory, bookings, competitor_rates, event_multipliers,
                   forecast_data, price_history, engine, callers>>

UpdateForecastAccuracy(room_type, actual_date) ==
    /\ result' = [args |-> [room_type |-> room_type, actual_date |-> actual_date]]
                 @@ update_forecast_accuracy(room_type, actual_date)
    /\ UNCHANGED <<room_types, inventory, bookings, competitor_rates, event_multipliers,
                   forecast_data, price_history, engine, callers>>

\* the forecasting engine's calls, and the pricing engine's call for a day
\* without a forecast row
ForecastNext ==
    \/ \E d \in ForecastDates, u \in BOOLEAN : CalculateDemandForecast("Deluxe", d, u)
    \/ \E sc \in ScenarioChoices : GenerateDemandScenarios("Deluxe", Today, sc)
    \/ \E d \in AccuracyDates : UpdateForecastAccuracy("Deluxe", d)
    \/ CalculateDynamicPrice("Deluxe", Today, NoParams)

ForecastSpec == Init /\ [][ForecastNext]_vars

----------------------------------------------------------------------------
(* Two threads sharing one PricingEngine *)

Callers == {"A", "B"}

\* the coefficients each caller wants its price computed with
Own(c) == IF c = "A" THEN FullParamsA ELSE FullParamsB

\* the order in which update_coefficients assigns and calculate_dynamic_price
\* reads the coefficients
CoefOrder == <<"alpha", "beta", "gamma", "delta">>

\* A caller either passes its coefficients as override_params of
\* calculate_dynamic_price (style "override"), or stores them with
\* update_coefficients and then calls calculate_dynamic_price without
\* override_params (style "update").  pc counts the caller's steps: the four
\* assignments of update_coefficients (0..3), the four reads of the
\* coefficients in calculate_dynamic_price (4..7), the rest of the
\* computation (8), returned (9).
StartOf(style) ==
    [style |-> style, pc |-> IF style = "update" THEN 0 ELSE 4,
     read |-> Coefs(0, 0, 0, 0), price |-> NoResult]

override_params_of(c) == IF callers[c].style = "override" THEN Own(c) ELSE NoParams

ConcInit ==
    /\ room_types = <<[name |-> "Deluxe", base_rate |-> Fx(280, 1)]>>
    /\ inventory = <<[room_type |-> "Deluxe"]>>
    /\ bookings = <<>>
    /\ competitor_rates = InitialCompetitorRates
    /\ event_multipliers = <<[date |-> Today + 10, multiplier |-> Fx(125, 100)]>>
    /\ forecast_data = InitialForecastData
    /\ price_history = <<>>
    /\ engine = PricingEngineInit
    /\ result = NoResult
    /\ callers \in [Callers -> {StartOf("update"), StartOf("override")}]

\* update_coefficients: one assignment self.<key> = <key>
AssignCoefficient(c) ==
    /\ callers[c].pc \in 0..3
    /\ LET key == CoefOrder[callers[c].pc + 1]
       IN  engine' = [engine EXCEPT ![key] = Own(c).vals[key]]
    /\ callers' = [callers EXCEPT ![c].pc = @ + 1]
    /\ UNCHANGED <<store, price_history, result>>

\* calculate_dynamic_price: one of alpha = ..., beta = ..., gamma = ..., delta = ...
ReadCoefficient(c) ==
    /\ callers[c].pc \in 4..7
    /\ LET key == CoefOrder[callers[c].pc - 3]
       IN  callers' = [callers EXCEPT
                          ![c].pc = @ + 1,
                          ![c].read[key] = coefficient(engine, override_params_of(c), key)]
    /\ UNCHANGED <<store, price_history, engine, result>>

\* calculate_dynamic_price from its reads of the stored data on, with the
\* coefficients read before
ComputePrice(c) ==
    /\ callers[c].pc = 8
    /\ callers' = [callers EXCEPT
                      ![c].pc = 9,
                      ![c].price = calculate_dynamic_price(
                                       engine, "Deluxe", Today + 10,
                                       Params(CoefKeys, callers[c].read))]
    /\ UNCHANGED <<store, price_history, engine, result>>

ConcNext ==
    \E c \in Callers : AssignCoefficient(c) \/ ReadCoefficient(c) \/ ComputePrice(c)

ConcSpec == ConcInit /\ [][ConcNext]_vars

\* the price of the call of caller c computed with c's own coefficients
OwnPrice(c) ==
    calculate_dynamic_price(PricingEngineInit, "Deluxe", Today + 10, Own(c)).final_price

\* C8 as stated: under every interleaving each caller obtains the price
\* computed with its own coefficients.
C8_EachCallerGetsItsOwnPrice ==
    \A c \in Callers :
        callers[c].pc = 9 => callers[c].price.final_price = OwnPrice(c)

\* C8 amended: under every interleaving a caller that passes its four
\* coefficients as override_params obtains the price computed with them; a
\* caller that stores them with update_coefficients shares them with the
\* other callers and can be priced with theirs.
C8_OverridingCallerGetsItsOwnPrice ==
    \A c \in Callers :
        (callers[c].pc = 9 /\ callers[c].style = "override")
        => callers[c].price.final_price = OwnPrice(c)

\* caller A overrode, caller B updated the engine before A read, both returned
C8_Witness ==
    /\ callers["A"].style = "override" /\ callers["A"].pc = 9
    /\ callers["B"].style = "update" /\ callers["B"].pc = 9
    /\ engine.alpha = Own("B").vals.alpha
    /\ callers["A"].price.final_price # callers["B"].price.final_price

----------------------------------------------------------------------------
(* Properties of the pricing engine, checked under Spec *)

\* a result computed without a division by a zero base rate
IsPrice(r) == r.kind = "price" /\ ~r.is_nan

\* C2: for a room type with a positive base_rate, the returned final_price
\* lies between floor = 0.7 * base_rate and ceiling = 1.5 * base_rate.
C2_WithinFloorCeiling ==
    (IsPrice(result) /\ result.base_rate > 0) =>
        /\ result.floor = MulFx(result.base_rate, Fx(7, 10))
        /\ result.ceiling = MulFx(result.base_rate, Fx(15, 10))
        /\ result.floor <= result.final_price
        /\ result.final_price <= result.ceiling

\* two results carry the same price: both undefined, or both the same number
SamePrice(r1, r2) ==
    r1.is_nan = r2.is_nan /\ (~r1.is_nan => r1.final_price = r2.final_price)

\* the calls whose repetition C5 compares
RepeatedCalls == Rooms \X TargetDates \X OverrideChoices

\* the call a returns the same price on an engine with the attributes self1
\* and on one with the attributes self2 (the same attributes give the same
\* price: the price is a function of them and of the stored data)
SamePriceOn(self1, self2, a) ==
    \/ self1 = self2
    \/ SamePrice(calculate_dynamic_price(self1, a[1], a[2], a[3]),
                 calculate_dynamic_price(self2, a[1], a[2], a[3]))

DemandGrid == {0, Fx(1, 2), Fx(1, 1)}

\* the pricing formula of the result r evaluated with the demand d in place of
\* the forecast demand, everything else as in r
AtDemand(r, d) ==
    pricing_formula(engine, r.base_rate, d, r.locals.competitor_index,
                    r.locals.event_multiplier, r.locals.time_factor, r.coefficients)

\* -1, 0 or 1
Sign(x) == IF x < 0 THEN -1 ELSE IF x > 0 THEN 1 ELSE 0

\* C6 as stated: with alpha > 0 and everything else fixed, a strictly higher
\* forecast demand gives a strictly larger demand_factor and a strictly larger
\* raw_price.
C6_StrictlyMonotoneInDemand ==
    (IsPrice(result) /\ result.coefficients.alpha > 0) =>
        \A d \in DemandGrid :
            d > result.locals.forecasted_demand =>
                /\ AtDemand(result, d).demand_factor > result.locals.demand_factor
                /\ AtDemand(result, d).raw_price > result.locals.raw_price

\* C6 amended: with alpha > 0 and everything else fixed, a strictly higher
\* forecast demand gives a strictly larger demand_factor, and a strictly
\* larger raw_price provided the product of base_rate, competitor_factor,
\* event_factor and time_discount_factor is positive.
C6_MonotoneWhenOtherFactorsPositive ==
    (IsPrice(result) /\ result.coefficients.alpha > 0) =>
        \A d \in DemandGrid :
            d > result.locals.forecasted_demand =>
                LET f == AtDemand(result, d)
                IN  /\ f.demand_factor > result.locals.demand_factor
                    /\ Sign(result.base_rate) * Sign(f.competitor_factor)
                         * Sign(f.event_factor) * Sign(f.time_discount_factor) > 0
                       => f.raw_price > result.locals.raw_price

\* a price of a room with a positive base rate, computed from a forecast row
\* whose demand lies below a demand of the grid
C6_Witness ==
    /\ IsPrice(result)
    /\ result.base_rate = Fx(280, 1)
    /\ result.locals.forecasted_demand = Fx(90, 100)
    /\ result.coefficients.alpha = Fx(1, 1)

\* C7: calculate_dynamic_price and calculate_prices_for_period leave the
\* engine's coefficients and the forecast_data, competitor_rates and
\* event_multipliers tables as they were (a step after which result is a price
\* or a period is a call of one of the two).
C7_CalculationsAreReadOnly ==
    [][result'.kind \in {"price", "period"}
       => UNCHANGED <<engine, forecast_data, competitor_rates, event_multipliers>>]_vars

\* a period was priced with all four coefficients overridden
C7_Witness ==
    /\ result.kind = "period"
    /\ Len(result.prices) = 2
    /\ result.args.override_params = FullParamsA
    /\ engine.alpha # FullParamsA.vals.alpha

\* C10 as stated: a room type whose floor is not below its ceiling is rejected
\* with an error, so no price is ever returned for it.
C10_NoPriceWhenFloorNotBelowCeiling ==
    result.kind = "price" => result.floor < result.ceiling

\* C10 amended: for a room type whose floor is not below its ceiling a price
\* is returned all the same: the ceiling rounded to two decimals, or an
\* undefined number when the base rate is zero and a competitor rate exists.
C10_CeilingWhenFloorNotBelowCeiling ==
    (result.kind = "price" /\ result.floor >= result.ceiling) =>
        \/ result.is_nan
        \/ result.final_price = round(result.ceiling, 2)

\* a price returned for a room type with a negative base rate
C10_Witness ==
    /\ IsPrice(result)
    /\ result.floor > result.ceiling
    /\ result.locals.raw_price # result.ceiling

----------------------------------------------------------------------------
(* Properties of the forecasting engine, checked under ForecastSpec *)

\* C1: the forecasted_demand calculate_demand_forecast returns lies in
\* [0, 1], on the normal path and on the fallback path.
C1_DemandWithinUnitInterval ==
    /\ result.kind = "forecast" =>
          /\ 0 <= result.forecasted_demand
          /\ result.forecasted_demand <= Fx(1, 1)
    /\ \A r \in Rooms, d \in ForecastDates :
          /\ 0 <= fallback_forecast(r, d).forecasted_demand
          /\ fallback_forecast(r, d).forecasted_demand <= Fx(1, 1)

\* a forecast whose factors multiply to more than 1, returned as 1
C1_Witness ==
    /\ result.kind = "forecast"
    /\ result.model_used = "ml"
    /\ MulFx(result.components.base_demand, result.components.seasonality_factor)
          > Fx(1, 1)
    /\ result.forecasted_demand = Fx(1, 1)

\* the days of the lookback window on which a booking of room_type arrives
history_days(room_type) ==
    {d \in (Today - lookback_days)..Today :
        \E i \in 1..Len(bookings) : bookings[i].room_type = room_type
                                    /\ bookings[i].checkin = d}

\* C3: a forecast for a category with fewer than 14 days of occupancy history
\* (none at all included) has model_used 'fallback', confidence 0.5 and
\* forecasted_demand 0.75 on a weekday, 0.75 * 1.1 on a weekend day.
C3_FallbackBelowFourteenDays ==
    (result.kind = "forecast" /\ Cardinality(history_days(result.args.room_type)) < 14) =>
        /\ result.model_used = "fallback"
        /\ result.confidence = Fx(5, 10)
        /\ result.forecasted_demand =
              IF weekday(result.args.target_date) >= 5
              THEN MulFx(Fx(75, 100), Fx(11, 10)) ELSE Fx(75, 100)

\* the sum of the probabilities of the scenarios of a result
RECURSIVE probability_sum(_)
probability_sum(scenario_results) ==
    IF DOMAIN scenario_results = {} THEN 0
    ELSE LET k == CHOOSE x \in DOMAIN scenario_results : TRUE
         IN  scenario_results[k].probability
             + probability_sum([x \in DOMAIN scenario_results \ {k} |->
                                    scenario_results[x]])

\* the names in a scenarios argument
names_of(scenarios) == {scenarios[i] : i \in 1..Len(scenarios)}

\* C4 as stated: whatever the scenarios argument, the probabilities of the
\* returned scenarios sum to 1.0.
C4_ProbabilitiesSumToOne ==
    result.kind = "scenarios" => probability_sum(result.scenarios) = Fx(1, 1)

\* C4 amended: when the names in the scenarios argument are exactly low, base
\* and high (in any order, repeated or not), the probabilities of the returned
\* scenarios sum to 1.0.
C4_ProbabilitiesSumToOneForTheThreeNames ==
    (result.kind = "scenarios"
     /\ names_of(result.args.scenarios) = {"low", "base", "high"})
    => probability_sum(result.scenarios) = Fx(1, 1)

\* scenarios returned for the three names in another order, one repeated
C4_Witness ==
    /\ result.kind = "scenarios"
    /\ result.args.scenarios = <<"high", "low", "base", "low">>
    /\ DOMAIN result.scenarios = {"low", "base", "high"}

\* room_type has no inventory row
NoInventory(room_type) == Count(SelectSeq(inventory, LAMBDA i : i.room_type = room_type)) = 0

\* the result r comes from a computation that needs the occupancy of its room
\* type: a forecast, scenarios, an accuracy report (a missing forecast row
\* included), a price for a day without a forecast row
NeedsOccupancy(r) ==
    \/ r.kind \in {"forecast", "scenarios", "accuracy"}
    \/ r.kind = "none" /\ "args" \in DOMAIN r
    \/ r.kind = "price"
       /\ latest_forecast(r.args.room_type, r.args.target_date) = <<>>

\* C9 as stated: for a category without inventory, a computation that needs
\* occupancy fails with a ConfigurationError instead of returning a value.
C9_ConfigurationErrorWithoutInventory ==
    (NeedsOccupancy(result) /\ NoInventory(result.args.room_type)) =>
        result.kind = "error" /\ result.error = "ConfigurationError"

\* the number of bookings of room_type arriving on date
arrivals(room_type, date) ==
    Count(SelectSeq(bookings, LAMBDA b : b.room_type = room_type /\ b.checkin = date))

\* C9 amended: for a category without inventory, a computation that needs
\* occupancy returns a value computed with an inventory count of 1: the
\* occupancy of a day of the series is its number of arrivals, the pricing
\* demand fallback is the mean of the four weekly arrival counts capped at
\* 1.0, the actual occupancy of the accuracy report is the day's arrivals.
C9_InventoryCountsAsOne ==
    (NeedsOccupancy(result) /\ NoInventory(result.args.room_type)) =>
        LET room == result.args.room_type
            h == get_historical_bookings(room)
        IN  /\ result.kind # "error"
            /\ result.kind \in {"forecast", "scenarios"} =>
                  \A i \in 1..Len(h) :
                      /\ h[i].bookings = arrivals(room, h[i].date)
                      /\ h[i].occupancy = Fx(h[i].bookings, 1)
            /\ result.kind = "accuracy" =>
                  result.actual_occupancy
                      = Fx(arrivals(room, result.args.actual_date), 1)
            /\ result.kind = "price" =>
                  result.locals.forecasted_demand
                      = Min(Fx(SumSeq([w \in 1..4 |->
                                          arrivals(room, result.args.target_date - 7 * w)]),
                               4),
                            Fx(1, 1))

\* a price computed from the demand fallback for a category with a booking and
\* no inventory
C9_Witness ==
    /\ NoInventory("Deluxe")
    /\ bookings # <<>>
    /\ result.kind = "price"
    /\ result.locals.forecasted_demand = Fx(1, 4)

----------------------------------------------------------------------------
(* Calls for a room type that has no room_types row, checked under
   UnknownRoomSpec: the other tables still hold rows naming it *)

\* the room_types table is empty or holds another room type only
UnknownRoomInit ==
    /\ room_types \in {<<>>, <<[name |-> "Club King", base_rate |-> Fx(350, 1)]>>}
    /\ \E n \in 0..MaxRooms : inventory = Rows(n, [room_type |-> "Deluxe"])
    /\ \E n \in 0..MaxBookings :
          bookings = Rows(n, [room_type |-> "Deluxe", checkin |-> Today - 7,
                              created_at |-> Today - 10])
    /\ competitor_rates = InitialCompetitorRates
    /\ event_multipliers = <<[date |-> Today + 10, multiplier |-> Fx(125, 100)]>>
    /\ forecast_data = InitialForecastData
    /\ price_history = <<>>
    /\ engine = PricingEngineInit
    /\ result = NoResult
    /\ callers = <<>>

UnknownRoomNext ==
    \/ \E d \in TargetDates, o \in OverrideChoices : CalculateDynamicPrice("Deluxe", d, o)
    \/ \E d \in ForecastDates, u \in BOOLEAN : CalculateDemandForecast("Deluxe", d, u)
    \/ \E sc \in ScenarioChoices : GenerateDemandScenarios("Deluxe", Today, sc)

UnknownRoomSpec == UnknownRoomInit /\ [][UnknownRoomNext]_vars

\* no room_types row has the name room_type
UnknownRoom(room_type) == \A i \in 1..Len(room_types) : room_types[i].name # room_type

\* C11 as stated: a price, forecast or scenario call for an unknown room type
\* fails with NotFound; nothing is returned for it.
C11_NotFoundForUnknownRoom ==
    ("args" \in DOMAIN result /\ UnknownRoom(result.args.room_type)) =>
        result.kind = "error" /\ result.error = "NotFound"

\* C11 amended: a price, forecast or scenario call for an unknown room type
\* raises no NotFound: the price is computed from the substitute base rate 300
\* (floor 210, ceiling 450), the forecast takes a competitor factor of 1.0, and
\* the revenue figures of a scenario are demand * inventory count * 300.
C11_SubstituteBaseRateForUnknownRoom ==
    ("args" \in DOMAIN result /\ UnknownRoom(result.args.room_type)) =>
        LET room == result.args.room_type
            total_rooms == Count(SelectSeq(inventory, LAMBDA i : i.room_type = room))
        IN  /\ result.kind = "error" => result.error # "NotFound"
            /\ result.kind = "price" =>
                  /\ result.base_rate = Fx(300, 1)
                  /\ result.floor = Fx(210, 1)
                  /\ result.ceiling = Fx(450, 1)
                  /\ result.is_nan \/ result.final_price >= Fx(210, 1)
            /\ result.kind = "forecast" =>
                  result.components.competitor_factor = Fx(1, 1)
            /\ result.kind = "scenarios" =>
                  \A n \in DOMAIN result.scenarios :
                      result.scenarios[n].revenue_impact.base_revenue
                          = result.base_forecast * total_rooms * 300

\* scenarios with a revenue were returned for a room type that has inventory
\* and competitor rates and no room_types row
C11_Witness ==
    /\ UnknownRoom("Deluxe")
    /\ inventory # <<>>
    /\ result.kind = "scenarios"
    /\ \E n \in DOMAIN result.scenarios :
          result.scenarios[n].revenue_impact.base_revenue > 0

----------------------------------------------------------------------------
(* The occupancy series, checked under ForecastSpec *)

\* the series has one entry per day of [Today - lookback_days, Today], in
\* ascending order, each with the arrivals of its day
OneEntryPerDay(room_type, h) ==
    /\ Len(h) = lookback_days + 1
    /\ \A i \in 1..Len(h) :
          /\ h[i].date = Today - lookback_days + i - 1
          /\ h[i].bookings = arrivals(room_type, h[i].date)
          /\ h[i].bookings = 0 => h[i].occupancy = 0

----------------------------------------------------------------------------
(* The price history, checked under HistorySpec *)

\* price_history holds at most this many rows
MaxHistory == 2

\* the PriceHistory row save_pricing_to_history builds from an element of
\* pricing_data, with the default channel and source
PriceHistoryRow(price_info) ==
    [date           |-> price_info.date,
     room_type      |-> price_info.room_type,
     published_rate |-> price_info.final_price,
     channel        |-> "ALL",
     floor          |-> price_info.floor,
     ceiling        |-> price_info.ceiling,
     source         |-> "pricing_engine"]

\* a row generate_synthetic_data stores for Deluxe, whose base rate it sets to
\* 280: the published rate is the base rate times a factor drawn from
\* [0.9, 1.1]
SyntheticPriceHistory ==
    {<<[date           |-> Today - 1,
        room_type      |-> "Deluxe",
        published_rate |-> MulFx(Fx(280, 1), f),
        channel        |-> "DIRECT",
        floor          |-> MulFx(Fx(280, 1), Fx(7, 10)),
        ceiling        |-> MulFx(Fx(280, 1), Fx(15, 10)),
        source         |-> "historical_data"]>> : f \in {Fx(9, 10), Fx(11, 10)}}

\* the list a caller passes to save_pricing_to_history: the dict the last
\* calculate_dynamic_price call returned, or the list the last
\* calculate_prices_for_period call returned
PricingData(r) ==
    IF r.kind = "price" THEN <<r>> ELSE IF r.kind = "period" THEN r.prices ELSE <<>>

\* a save that replaces the stored row of the same day, room type and channel
save_pricing_to_history_replacing_same_day(pricing_data) ==
    /\ pricing_data # <<>>
    /\ Len(price_history) + Len(pricing_data) <= MaxHistory
    /\ LET new == [i \in 1..Len(pricing_data) |-> PriceHistoryRow(pricing_data[i])]
           kept == SelectSeq(price_history,
                             LAMBDA h : \A i \in 1..Len(new) :
                                            ~(/\ new[i].date = h.date
                                              /\ new[i].room_type = h.room_type
                                              /\ new[i].channel = h.channel))
       IN  price_history' = kept \o new
    /\ result' = NoResult
    /\ UNCHANGED <<room_types, inventory, bookings, competitor_rates, event_multipliers,
                   forecast_data, engine, callers>>

\* one row is added per element of pricing_data, in its order, and committed;
\* returns None
save_pricing_to_history(pricing_data) ==
    /\ pricing_data # <<>>
    /\ Len(price_history) + Len(pricing_data) <= MaxHistory
    /\ price_history' = price_history
                        \o [i \in 1..Len(pricing_data) |-> PriceHistoryRow(pricing_data[i])]
    /\ result' = NoResult
    /\ UNCHANGED <<room_types, inventory, bookings, competitor_rates, event_multipliers,
                   forecast_data, engine, callers>>

\* the runs start from a room type with a base rate other than zero (a zero
\* base rate can give an undefined price, which the published_rate column,
\* declared NOT NULL, does not store), with or without a row of
\* generate_synthetic_data in price_history
HistoryInit ==
    /\ \E b \in BaseRates \ {0} : room_types = <<[name |-> "Deluxe", base_rate |-> b]>>
    /\ inventory = Rows(1, [room_type |-> "Deluxe"])
    /\ \E n \in 0..MaxBookings :
          bookings = Rows(n, [room_type |-> "Deluxe", checkin |-> Today - 7,
                              created_at |-> Today - 10])
    /\ competitor_rates = InitialCompetitorRates
    /\ event_multipliers = <<[date |-> Today + 10, multiplier |-> Fx(125, 100)]>>
    /\ forecast_data = InitialForecastData
    /\ price_history \in {<<>>} \cup SyntheticPriceHistory
    /\ engine = PricingEngineInit
    /\ result = NoResult
    /\ callers = <<>>

HistoryNext ==
    \/ \E d \in TargetDates, o \in {NoParams, Params({"alpha"}, Coefs(Fx(1, 1), 0, 0, 0))} :
          CalculateDynamicPrice("Deluxe", d, o)
    \/ \E e \in (Today - 1)..(Today + MaxPeriod) :
          CalculatePricesForPeriod("Deluxe", Today, e, NoParams)
    \/ save_pricing_to_history(PricingData(result))

HistorySpec == HistoryInit /\ [][HistoryNext]_vars

IsPrefix(s, t) == Len(s) <= Len(t) /\ \A i \in 1..Len(s) : t[i] = s[i]

----------------------------------------------------------------------------
(* The period call, checked under Spec *)

\* C15: calculate_prices_for_period returns one entry per day from
\* start_date to end_date inclusive, in ascending date order (none when
\* start_date > end_date), each equal to what calculate_dynamic_price returns
\* for that day alone with the same override_params.
C15_PeriodIsOneCallPerDay ==
    result.kind = "period" =>
        LET a == result.args
            days == IF a.start_date > a.end_date THEN 0
                    ELSE a.end_date - a.start_date + 1
        IN  /\ Len(result.prices) = days
            /\ \A i \in 1..Len(result.prices) :
                  /\ result.prices[i].date = a.start_date + i - 1
                  /\ result.prices[i]
                       = calculate_dynamic_price(engine, a.room_type,
                                                 a.start_date + i - 1, a.override_params)

\* a period of two days was priced without overrides
C15_Witness ==
    /\ result.kind = "period"
    /\ result.args.override_params = NoParams
    /\ Len(result.prices) = 2
    /\ result.prices[2].date = Today + 1
    /\ result.prices[1].final_price # result.prices[2].final_price

----------------------------------------------------------------------------
(* Forecast accuracy, checked under ForecastSpec *)

\* r is what an update_forecast_accuracy call returned
IsAccuracyCall(r) == "args" \in DOMAIN r /\ "actual_date" \in DOMAIN r.args

\* the forecast_data rows of the call that returned r
ForecastRowsOf(r) ==
    {forecast_data[i] : i \in {j \in 1..Len(forecast_data) :
                                  /\ forecast_data[j].room_type = r.args.room_type
                                  /\ forecast_data[j].date = r.args.actual_date}}

\* r is None when no forecast row is stored for the call's day, and otherwise
\* a report on the row created last, with accuracy_score
\* = max(0, 100 - percentage_error) between 0 and 100 (100 % is Scale)
IsAccuracyReport(r) ==
    IF ForecastRowsOf(r) = {} THEN r.kind = "none"
    ELSE /\ r.kind = "accuracy"
         /\ \E f \in ForecastRowsOf(r) :
               /\ \A g \in ForecastRowsOf(r) : g.created_at <= f.created_at
               /\ r.predicted_demand = f.forecasted_demand
         /\ r.percentage_error >= 0
         /\ r.accuracy_score = (IF r.percentage_error >= Scale THEN 0
                                ELSE Scale - r.percentage_error)
         /\ 0 <= r.accuracy_score /\ r.accuracy_score <= Scale

\* C16: update_forecast_accuracy changes no stored record; it returns None
\* for a day without a forecast row, and otherwise reports on the forecast
\* row created last with accuracy_score = max(0, 100 - percentage_error).
C16_AccuracyReport ==
    [][IsAccuracyCall(result') =>
          /\ UNCHANGED <<room_types, inventory, bookings, competitor_rates,
                         event_multipliers, forecast_data, price_history, engine>>
          /\ IsAccuracyReport(result')]_vars

\* an accuracy report on a day with a booking and two forecast rows: the
\* demand of the row created last against an occupancy of 1.0
C16_Witness ==
    /\ IsAccuracyCall(result)
    /\ result.kind = "accuracy"
    /\ result.predicted_demand = Fx(60, 100)
    /\ result.actual_occupancy = Fx(1, 1)
    /\ result.accuracy_score = Fx(60, 100)

----------------------------------------------------------------------------
(* The recorded coefficients, checked under Spec *)

\* the coefficients recorded in r are the override value for each key of
\* override_params and the engine's value for each other key
RecordsCoefficientsUsed(r) ==
    \A k \in CoefKeys :
        r.coefficients[k] = (IF k \in r.args.override_params.keys
                             THEN r.args.override_params.vals[k]
                             ELSE engine[k])

\* the final price the formula gives for the recorded coefficients of r and
\* the inputs given
Reproduced(r, forecasted_demand, competitor_index, event_multiplier, time_factor) ==
    round(clip(pricing_formula(engine, r.base_rate, forecasted_demand, competitor_index,
                               event_multiplier, time_factor, r.coefficients).raw_price,
               r.floor, r.ceiling), 2)

\* C17 as stated: a result records the coefficients used, and its final_price
\* is reproduced from the recorded coefficients and the recorded inputs (the
\* base rate and the components, which are recorded with three decimals).
C17_ReproducedFromRecordedInputs ==
    IsPrice(result) =>
        /\ RecordsCoefficientsUsed(result)
        /\ result.final_price
             = Reproduced(result, result.components.forecasted_demand,
                          result.components.competitor_index,
                          result.components.event_multiplier,
                          result.components.time_factor)

\* C17 amended: a result records the coefficients used, and its final_price
\* is reproduced from the recorded coefficients and the inputs of the
\* computation before they are rounded for the record.
C17_ReproducedFromUnroundedInputs ==
    IsPrice(result) =>
        /\ RecordsCoefficientsUsed(result)
        /\ result.final_price
             = Reproduced(result, result.locals.forecasted_demand,
                          result.locals.competitor_index,
                          result.locals.event_multiplier,
                          result.locals.time_factor)

\* a price computed with alpha overridden and the other coefficients taken
\* from an engine whose alpha was updated
C17_Witness ==
    /\ IsPrice(result)
    /\ result.args.override_params.keys = {"alpha"}
    /\ engine.alpha = Fx(6, 10)
    /\ result.coefficients.alpha = Fx(1, 1)
    /\ result.coefficients.beta = engine.beta
    /\ result.floor < result.final_price /\ result.final_price < result.ceiling

----------------------------------------------------------------------------
(* The regression model of the forecast, checked under ForecastSpec *)

\* C18: a forecast tagged model_used = 'ml' has the trained model's
\* prediction as its base_demand; a forecast degraded by a failure of the
\* regression model carries another tag.
C18_MlTagOnlyForModelPrediction ==
    (result.kind = "forecast" /\ result.model_used = "ml") =>
        /\ ~result.args.ml.raises
        /\ result.components.base_demand = clip(result.args.ml.prediction, 0, Fx(1, 1))

\* r is what a calculate_demand_forecast call returned
IsForecastCall(r) == "args" \in DOMAIN r /\ "use_ml" \in DOMAIN r.args

\* s is the exponential smoothing of values: s[1] = values[1] and
\* s[t] = 0.3 * values[t] + 0.7 * s[t - 1]
IsSmoothingOf(s, values) ==
    /\ Len(s) = Len(values)
    /\ s[1] = values[1]
    /\ \A t \in 2..Len(values) :
          s[t] = MulFx(Fx(3, 10), values[t]) + MulFx(Fx(7, 10), s[t - 1])

\* C19: a failure of the regression model does not reach the caller: the call
\* returns a forecast whose base_demand is the last value of the exponential
\* smoothing of the occupancy series.
C19_ModelFailureDegradesToSmoothing ==
    (IsForecastCall(result) /\ result.args.use_ml /\ result.args.ml.raises) =>
        LET values == occupancy_values(get_historical_bookings(result.args.room_type))
            s == [t \in 1..Len(values) |-> smoothing_loop(values, 2, t, values[1])]
        IN  /\ result.kind = "forecast"
            /\ IsSmoothingOf(s, values)
            /\ result.components.base_demand = s[Len(values)]

\* the regression model raised for a series with a booking, and a forecast
\* with a smoothed base demand was returned
C19_Witness ==
    /\ IsForecastCall(result)
    /\ result.args.use_ml /\ result.args.ml.raises
    /\ bookings # <<>>
    /\ result.kind = "forecast"
    /\ result.components.base_demand > 0
    /\ result.components.base_demand < Fx(3, 10)

----------------------------------------------------------------------------
(* The forecast's product of factors, checked under FallbackSpec: the
   forecasts of calculate_demand_forecast, and those of _fallback_forecast,
   which calculate_demand_forecast returns for a series of fewer than 14
   entries *)

FallbackForecast(room_type, target_date) ==
    /\ result' = [args |-> [room_type |-> room_type, target_date |-> target_date]]
                 @@ fallback_forecast(room_type, target_date)
    /\ UNCHANGED <<room_types, inventory, bookings, competitor_rates, event_multipliers,
                   forecast_data, price_history, engine, callers>>

FallbackNext ==
    \/ \E d \in ForecastDates, u \in BOOLEAN : CalculateDemandForecast("Deluxe", d, u)
    \/ \E r \in Rooms, d \in ForecastDates : FallbackForecast(r, d)

FallbackSpec == Init /\ [][FallbackNext]_vars

\* the product of the components of the forecast r, in the order
\* calculate_demand_forecast multiplies them, clipped to [0, 1]
ProductOfComponents(r) ==
    LET c == r.components
    IN  clip(MulFx(MulFx(MulFx(MulFx(MulFx(MulFx(c.base_demand, c.seasonality_factor),
                                           c.trend_factor),
                                     c.day_of_week_factor),
                               c.competitor_factor),
                         c.event_factor),
                   c.lead_time_factor),
             0, Fx(1, 1))

\* C20: the forecasted_demand of every forecast, on the normal path and on
\* the fallback path, is the clipped product of the components it reports.
C20_DemandIsProductOfComponents ==
    result.kind = "forecast" => result.forecasted_demand = ProductOfComponents(result)

----------------------------------------------------------------------------
(* The competitor factor of the forecast, checked under ForecastSpec *)

\* the factor the ratio of a competitor rate level to the base rate maps to
competitor_factor_of(level, base_rate) ==
    LET price_ratio == DivFx(level, base_rate)
    IN  IF price_ratio > Fx(11, 10) THEN Fx(105, 100)
        ELSE IF price_ratio < Fx(9, 10) THEN Fx(95, 100)
        ELSE Fx(1, 1)

\* C21: the competitor factor of a forecast is computed from the median of
\* the competitor rates of target_date flagged available, over the base rate:
\* 1.05 above 1.10, 0.95 below 0.90, otherwise 1.0, and 1.0 without competitor
\* rows; rates flagged unavailable do not influence it.
C21_CompetitorFactorFromAvailableMedian ==
    (IsForecastCall(result) /\ result.kind = "forecast"
     /\ get_base_rate(result.args.room_type) # 0) =>
        LET rates == available_rates(result.args.room_type, result.args.target_date)
        IN  result.components.competitor_factor
              = (IF rates = <<>> THEN Fx(1, 1)
                 ELSE competitor_factor_of(median(rates),
                                           get_base_rate(result.args.room_type)))

----------------------------------------------------------------------------
(* The lead-time factor of the forecast, checked under LeadTimeSpec *)

\* the bookings table holds at most this many rows
MaxLeadBookings == 2

\* the bookings the runs store: lead times of 3, 20, 5 and -2 days (created
\* after check-in) created in the last 60 days, and one of 40 days created
\* 61 days ago
LeadBookings ==
    {[room_type |-> "Deluxe", checkin |-> Today - 7, created_at |-> Today - 10],
     [room_type |-> "Deluxe", checkin |-> Today + 15, created_at |-> Today - 5],
     [room_type |-> "Deluxe", checkin |-> Today, created_at |-> Today - 5],
     [room_type |-> "Deluxe", checkin |-> Today - 4, created_at |-> Today - 2],
     [room_type |-> "Deluxe", checkin |-> Today - 21, created_at |-> Today - 61]}

\* the dates forecast: lead times of -1, 0, 1, 10 and 30 days
LeadDates == {Today - 1, Today, Today + 1, Today + 10, Today + 30}

LeadTimeInit ==
    /\ room_types = <<[name |-> "Deluxe", base_rate |-> Fx(280, 1)]>>
    /\ inventory = Rows(1, [room_type |-> "Deluxe"])
    /\ bookings \in UNION {[1..n -> LeadBookings] : n \in 0..MaxLeadBookings}
    /\ competitor_rates = InitialCompetitorRates
    /\ event_multipliers = <<[date |-> Today + 10, multiplier |-> Fx(125, 100)]>>
    /\ forecast_data = InitialForecastData
    /\ price_history = <<>>
    /\ engine = PricingEngineInit
    /\ result = NoResult
    /\ callers = <<>>

LeadTimeNext == \E d \in LeadDates : CalculateDemandForecast("Deluxe", d, FALSE)

LeadTimeSpec == LeadTimeInit /\ [][LeadTimeNext]_vars

\* the bookings of room_type created in the last 60 days
created_in_last_60_days(room_type) ==
    {i \in 1..Len(bookings) : /\ bookings[i].room_type = room_type
                              /\ bookings[i].created_at >= Today - 60}

\* the sum of the lead times (check-in day minus creation day) of the
\* bookings numbered in S
RECURSIVE lead_time_sum(_)
lead_time_sum(S) ==
    IF S = {} THEN 0
    ELSE LET i == CHOOSE j \in S : TRUE
         IN  bookings[i].checkin - bookings[i].created_at + lead_time_sum(S \ {i})

\* C22: with L = target_date - today and m the mean lead time of the
\* bookings created in the last 60 days (their sum over their number n), the
\* lead-time factor is 1.10 when L <= 0, and otherwise 1.05 when L < m / 2,
\* 0.95 when L > 2 m, and 1.0 in every other case and when there is no such
\* booking.
C22_LeadTimeFactor ==
    (IsForecastCall(result) /\ result.kind = "forecast") =>
        LET L == result.args.target_date - Today
            S == created_in_last_60_days(result.args.room_type)
            n == Cardinality(S)
            total == lead_time_sum(S)
            factor == result.components.lead_time_factor
        IN  /\ factor \in {Fx(95, 100), Fx(1, 1), Fx(105, 100), Fx(11, 10)}
            /\ factor = (IF L <= 0 THEN Fx(11, 10)
                         ELSE IF n = 0 THEN Fx(1, 1)
                         ELSE IF 2 * L * n < total THEN Fx(105, 100)
                         ELSE IF L * n > 2 * total THEN Fx(95, 100)
                         ELSE Fx(1, 1))

\* a forecast for tomorrow with one booking of lead time 3 created in the
\* last 60 days and one of lead time 40 created before: m = 3, factor 1.05
C22_Witness ==
    /\ IsForecastCall(result) /\ result.kind = "forecast"
    /\ result.args.target_date = Today + 1
    /\ Len(bookings) = 2
    /\ Cardinality(created_in_last_60_days("Deluxe")) = 1
    /\ lead_time_sum(created_in_last_60_days("Deluxe")) = 3
    /\ result.components.lead_time_factor = Fx(105, 100)

----------------------------------------------------------------------------
(* The competitor index of the pricing engine, checked under CompetitorSpec *)

\* the competitor_rates table holds at most this many rows
MaxCompetitorRows == 2

\* the competitor rows the runs store: for Today two available rates and one
\* flagged unavailable, for Today + 10 one flagged unavailable
CompetitorRows ==
    {CompetitorRow("Voco-Dubai", Today, "Deluxe", Fx(140, 1), TRUE),
     CompetitorRow("Movenpick-BB", Today, "Deluxe", Fx(420, 1), FALSE),
     CompetitorRow("Hilton-Palm", Today, "Deluxe", Fx(300, 1), TRUE),
     CompetitorRow("Voco-Dubai", Today + 10, "Deluxe", Fx(350, 1), FALSE)}

CompetitorInit ==
    /\ \E b \in BaseRates : room_types = <<[name |-> "Deluxe", base_rate |-> b]>>
    /\ inventory = Rows(1, [room_type |-> "Deluxe"])
    /\ bookings = <<>>
    /\ competitor_rates \in UNION {[1..n -> CompetitorRows] : n \in 0..MaxCompetitorRows}
    /\ event_multipliers = <<[date |-> Today + 10, multiplier |-> Fx(125, 100)]>>
    /\ forecast_data = InitialForecastData
    /\ price_history = <<>>
    /\ engine = PricingEngineInit
    /\ result = NoResult
    /\ callers = <<>>

CompetitorNext ==
    \E r \in Rooms, d \in TargetDates : CalculateDynamicPrice(r, d, NoParams)

CompetitorSpec == CompetitorInit /\ [][CompetitorNext]_vars

\* the competitor rows of (room_type, date), as row numbers
competitor_rows_of(room_type, date) ==
    {i \in 1..Len(competitor_rates) : /\ competitor_rates[i].room_type = room_type
                                      /\ competitor_rates[i].date = date}

\* x is the k-th smallest of the rates of the rows numbered in S
IsKthSmallest(x, k, S) ==
    /\ \E i \in S : competitor_rates[i].rate = x
    /\ Cardinality({i \in S : competitor_rates[i].rate < x}) < k
    /\ Cardinality({i \in S : competitor_rates[i].rate <= x}) >= k

\* m is the median of the rates of the rows numbered in S: the middle one, or
\* the mean of the two middle ones
IsMedianOf(m, S) ==
    LET n == Cardinality(S)
    IN  \E i, j \in S :
           /\ IsKthSmallest(competitor_rates[i].rate, (n + 1) \div 2, S)
           /\ IsKthSmallest(competitor_rates[j].rate, n \div 2 + 1, S)
           /\ m = (competitor_rates[i].rate + competitor_rates[j].rate) \div 2

----------------------------------------------------------------------------
(* The pricing formula and its worked examples, checked under ExampleSpec *)

\* the forecast stored for Today + 10
ExampleDemands == {Fx(75, 100), Fx(1, 2), Fx(1, 1)}

\* the runs start with a forecast row for Today + 10, with or without an event
\* multiplier of 1.25 for that day, and with or without competitor rows
ExampleInit ==
    /\ \E b \in BaseRates : room_types = <<[name |-> "Deluxe", base_rate |-> b]>>
    /\ inventory = Rows(1, [room_type |-> "Deluxe"])
    /\ bookings = <<>>
    /\ competitor_rates \in {<<>>, InitialCompetitorRates}
    /\ event_multipliers
         \in {<<>>, <<[date |-> Today + 10, multiplier |-> Fx(125, 100)]>>}
    /\ \E d \in ExampleDemands :
          forecast_data = <<[room_type |-> "Deluxe", date |-> Today + 10,
                             forecasted_demand |-> d, created_at |-> Today - 1]>>
    /\ price_history = <<>>
    /\ engine = PricingEngineInit
    /\ result = NoResult
    /\ callers = <<>>

ExampleNext ==
    \E d \in TargetDates, o \in OverrideChoices : CalculateDynamicPrice("Deluxe", d, o)

ExampleSpec == ExampleInit /\ [][ExampleNext]_vars

\* the formula of the price r: raw_price is the product of the base rate and
\* the four factors, with time_factor = clip(lead_days / 365, 0, 1) * 0.1, and
\* final_price is raw_price clipped to [floor, ceiling], reported in cents
FollowsFormula(r) ==
    LET c == r.coefficients
        l == r.locals
        lead_days == r.date - Today
        time_factor == MulFx(clip(Fx(lead_days, 365), 0, Fx(1, 1)), Fx(1, 10))
        raw_price ==
            MulFx(MulFx(MulFx(MulFx(r.base_rate,
                                    Fx(1, 1) + MulFx(c.alpha, l.forecasted_demand
                                                              - Fx(75, 100))),
                              Fx(1, 1) + MulFx(c.beta, l.competitor_index - Fx(1, 1))),
                        Fx(1, 1) + MulFx(c.delta, l.event_multiplier - Fx(1, 1))),
                  Fx(1, 1) - MulFx(c.gamma, time_factor))
    IN  /\ l.time_factor = time_factor
        /\ l.raw_price = raw_price
        /\ r.final_price = round(clip(raw_price, r.floor, r.ceiling), 2)

\* r is a price of the worked examples: base rate 280, the default
\* coefficients, demand 0.75, competitor index 1.0, a lead time of 10 days
IsExample(r, event_multiplier) ==
    /\ IsPrice(r)
    /\ r.base_rate = Fx(280, 1)
    /\ r.coefficients = Coefs(Fx(3, 10), Fx(25, 100), Fx(2, 100), Fx(1, 1))
    /\ r.locals.forecasted_demand = Fx(75, 100)
    /\ r.locals.competitor_index = Fx(1, 1)
    /\ r.date - Today = 10
    /\ r.locals.event_multiplier = event_multiplier

\* r is strictly inside its floor and ceiling, which are 196 and 420
InsideBounds(r) ==
    /\ r.floor = Fx(196, 1) /\ r.ceiling = Fx(420, 1)
    /\ r.floor < r.locals.raw_price /\ r.locals.raw_price < r.ceiling
    /\ r.final_price = round(r.locals.raw_price, 2)

----------------------------------------------------------------------------
(* The revenue of the demand scenarios, checked under ForecastSpec *)

\* the demand and the probability of the three scenarios for a base forecast b
scenario_demand(scenario, b) ==
    IF scenario = "low" THEN MulFx(b, Fx(8, 10))
    ELSE IF scenario = "base" THEN b
    ELSE Min(MulFx(b, Fx(13, 10)), Fx(1, 1))

scenario_probability(scenario) == IF scenario = "base" THEN Fx(6, 10) ELSE Fx(2, 10)

\* C25: with base forecast b, 'low' reports demand 0.8 b with probability
\* 0.2, 'base' reports b with probability 0.6 and 'high' reports
\* min(1.3 b, 1.0) with probability 0.2; the scenario_revenue of each is its
\* reported demand * inventory count * base rate, and base_revenue is
\* b * inventory count * base rate.
C25_ScenarioRevenueFromReportedDemand ==
    result.kind = "scenarios" =>
        LET b == result.base_forecast
            total_rooms == Count(SelectSeq(inventory,
                                           LAMBDA i : i.room_type = result.room_type))
            base_rate == get_base_rate(result.room_type)
        IN  \A s \in DOMAIN result.scenarios \cap {"low", "base", "high"} :
               LET reported == result.scenarios[s]
               IN  /\ reported.demand = scenario_demand(s, b)
                   /\ reported.probability = scenario_probability(s)
                   /\ reported.revenue_impact.scenario_revenue
                        = MulFx(reported.demand * total_rooms, base_rate)
                   /\ reported.revenue_impact.base_revenue
                        = MulFx(b * total_rooms, base_rate)

----------------------------------------------------------------------------
(* The confidence of a forecast, checked under ConfidenceSpec *)

\* one check-in day holds at most this many bookings
MaxDayBookings == 6

\* the runs start with one inventory row and 0..MaxDayBookings bookings
\* checking in seven days ago: the occupancy of that day is their number
ConfidenceInit ==
    /\ \E b \in BaseRates : room_types = <<[name |-> "Deluxe", base_rate |-> b]>>
    /\ inventory = Rows(1, [room_type |-> "Deluxe"])
    /\ \E n \in 0..MaxDayBookings :
          bookings = Rows(n, [room_type |-> "Deluxe", checkin |-> Today - 7,
                              created_at |-> Today - 10])
    /\ competitor_rates = InitialCompetitorRates
    /\ event_multipliers = <<[date |-> Today + 10, multiplier |-> Fx(125, 100)]>>
    /\ forecast_data = InitialForecastData
    /\ price_history = <<>>
    /\ engine = PricingEngineInit
    /\ result = NoResult
    /\ callers = <<>>

ConfidenceNext ==
    \/ \E d \in ForecastDates, u \in BOOLEAN : CalculateDemandForecast("Deluxe", d, u)
    \/ \E d \in ForecastDates : FallbackForecast("Deluxe", d)

ConfidenceSpec == ConfidenceInit /\ [][ConfidenceNext]_vars

\* the occupancy series of the lookback window with k bookings on one room
\* seven days ago and none on the other days
series_with(k) ==
    [n \in 1..(lookback_days + 1) |->
        [date      |-> Today - lookback_days + n - 1,
         occupancy |-> IF n = lookback_days - 6 THEN Fx(k, 1) ELSE 0,
         bookings  |-> IF n = lookback_days - 6 THEN k ELSE 0]]

\* C26: the confidence of every forecast lies in [0.3, 1.0]; on the fallback
\* path it is 0.5, and on the normal path it is
\* max(0.3, 1.0 - min(2 * variance(occupancy series), 0.7)), so that a series
\* with a variance at least as large never has a larger confidence.
C26_ConfidenceFromVariance ==
    result.kind = "forecast" =>
        LET values == occupancy_values(get_historical_bookings(result.room_type))
        IN  /\ Fx(3, 10) <= result.confidence /\ result.confidence <= Fx(1, 1)
            /\ IF result.model_used = "fallback" THEN result.confidence = Fx(5, 10)
               ELSE /\ result.confidence
                         = Max(Fx(3, 10), Fx(1, 1) - Min(2 * variance(values), Fx(7, 10)))
                    /\ \A k \in 0..MaxDayBookings :
                          variance(occupancy_values(series_with(k))) >= variance(values)
                          => calculate_confidence(series_with(k), 0) <= result.confidence

\* a forecast on a series with three bookings on one day: the variance is
\* between 0.05 and 0.35, and the confidence strictly between 0.3 and 1.0
C26_Witness ==
    /\ IsForecastCall(result) /\ result.kind = "forecast"
    /\ Len(bookings) = 3
    /\ get_historical_bookings("Deluxe") = series_with(3)
    /\ variance(occupancy_values(series_with(3))) > Fx(5, 100)
    /\ variance(occupancy_values(series_with(3))) < Fx(35, 100)
    /\ result.confidence = Fx(1, 1) - 2 * variance(occupancy_values(series_with(3)))

----------------------------------------------------------------------------
(* DataIngestionPipeline.ingest_competitor_data, checked under IngestSpec.
   The competitor_rates rows carry scraped_at here; times are counted in
   ingestion runs, the rows stored before the first run having time 0. *)

\* ingest_competitor_data runs at most this many times
MaxIngestRuns == 2

\* the competitors of self.competitor_sources the runs ask for, by their
\* collection method, and a name without a source configuration
ApiCompetitor == "Voco-Dubai"

ScrapingCompetitor == "Movenpick-BB"

CompetitorLists ==
    {<<ApiCompetitor>>, <<ScrapingCompetitor>>, <<ApiCompetitor, ScrapingCompetitor>>,
     <<"Unlisted">>}

\* days_ahead of a run
DaysAhead == {0, 1}

\* what a source quotes in one run (the same for each day of the run): a rate
\* of 0.7 or 1.3 times the Deluxe base rate of 280, available or not
Quotes ==
    {[rate |-> MulFx(Fx(280, 1), Fx(7, 10)), availability |-> TRUE],
     [rate |-> MulFx(Fx(280, 1), Fx(13, 10)), availability |-> FALSE]}

ScrapedRow(competitor_id, date, room_type, rate, availability, scraped_at) ==
    [competitor_id |-> competitor_id, date |-> date, room_type |-> room_type,
     rate |-> rate, availability |-> availability, scraped_at |-> scraped_at]

\* what _fetch_competitor_rates can do for a competitor: raise, or return one
\* rate_data per day from today to today + days_ahead, in date order, for the
\* room type Deluxe of its room_mapping; scraping leaves any of the days out
FetchOutcomes(competitor, days_ahead) ==
    LET days == [n \in 1..(days_ahead + 1) |-> Today + n - 1]
        covered == IF competitor = ScrapingCompetitor
                   THEN SUBSET (Today..(Today + days_ahead))
                   ELSE {Today..(Today + days_ahead)}
    IN  {[raises |-> TRUE, rates_data |-> <<>>]}
        \cup {[raises |-> FALSE,
               rates_data |->
                   LET kept == SelectSeq(days, LAMBDA d : d \in c)
                   IN  [n \in 1..Len(kept) |->
                           [date |-> kept[n], room_type |-> "Deluxe",
                            rate |-> q.rate, availability |-> q.availability]]] :
                 c \in covered, q \in Quotes}

\* the first row of table with the key of rate_data for competitor, as a set
\* of at most one row number
existing_rate(table, competitor, rate_data) ==
    LET found == {i \in 1..Len(table) : /\ table[i].competitor_id = competitor
                                        /\ table[i].date = rate_data.date
                                        /\ table[i].room_type = rate_data.room_type}
    IN  {i \in found : \A j \in found : i <= j}

\* a save that adds a row whether or not the key has one
save_rate_always_adding(table, competitor, rate_data, now) ==
    Append(table, ScrapedRow(competitor, rate_data.date, rate_data.room_type,
                             rate_data.rate, rate_data.availability, now))

\* the body of the loop over rates_data: the existing row is updated, or a
\* new row is added
save_rate(table, competitor, rate_data, now) ==
    LET existing == existing_rate(table, competitor, rate_data)
    IN  IF existing # {}
        THEN [i \in 1..Len(table) |->
                 IF i \in existing
                 THEN [table[i] EXCEPT !.rate = rate_data.rate,
                                       !.availability = rate_data.availability,
                                       !.scraped_at = now]
                 ELSE table[i]]
        ELSE Append(table, ScrapedRow(competitor, rate_data.date, rate_data.room_type,
                                      rate_data.rate, rate_data.availability, now))

\* the loop over rates_data from its i-th element on
RECURSIVE save_rates(_, _, _, _, _)
save_rates(table, competitor, rates_data, i, now) ==
    IF i > Len(rates_data) THEN table
    ELSE save_rates(save_rate(table, competitor, rates_data[i], now), competitor,
                    rates_data, i + 1, now)

\* the loop over competitors from its i-th element on: the table, total_rates
\* and failed_sources it ends with; fetched gives what _fetch_competitor_rates
\* does for each competitor with a source configuration
RECURSIVE ingest_loop(_, _, _, _, _)
ingest_loop(acc, competitors, i, fetched, now) ==
    IF i > Len(competitors) THEN acc
    ELSE LET competitor == competitors[i]
         IN  IF competitor \notin DOMAIN fetched
             THEN ingest_loop(acc, competitors, i + 1, fetched, now)
             ELSE IF fetched[competitor].raises
             THEN ingest_loop([acc EXCEPT !.failed_sources = Append(@, competitor)],
                              competitors, i + 1, fetched, now)
             ELSE ingest_loop(
                      [acc EXCEPT
                          !.table = save_rates(@, competitor,
                                               fetched[competitor].rates_data, 1, now),
                          !.total_rates = @ + Len(fetched[competitor].rates_data)],
                      competitors, i + 1, fetched, now)

\* the time of the next run: one more than the latest scraped_at stored
next_run(table) ==
    1 + Cardinality({t \in 1..MaxIngestRuns : \E i \in 1..Len(table) :
                                                   table[i].scraped_at >= t})

\* ingest_competitor_data(competitors, days_ahead): the rates fetched are
\* saved and committed, and the summary is returned
ingest_competitor_data(competitors, days_ahead) ==
    /\ next_run(competitor_rates) <= MaxIngestRuns
    /\ \E fa \in FetchOutcomes(ApiCompetitor, days_ahead),
          fs \in FetchOutcomes(ScrapingCompetitor, days_ahead) :
          LET fetched == (ApiCompetitor :> fa) @@ (ScrapingCompetitor :> fs)
              done == ingest_loop([table |-> competitor_rates, total_rates |-> 0,
                                   failed_sources |-> <<>>],
                                  competitors, 1, fetched, next_run(competitor_rates))
          IN  /\ competitor_rates' = done.table
              /\ result' = [kind |-> "ingestion",
                            status |-> IF done.failed_sources = <<>> THEN "success"
                                       ELSE "partial",
                            total_rates |-> done.total_rates,
                            successful_sources |-> Len(competitors)
                                                   - Len(done.failed_sources),
                            failed_sources |-> done.failed_sources]
    /\ UNCHANGED <<room_types, inventory, bookings, event_multipliers, forecast_data,
                   price_history, engine, callers>>

\* the runs start from the rows generate_synthetic_data stores for today, or
\* from an empty table
IngestInit ==
    /\ room_types = <<[name |-> "Deluxe", base_rate |-> Fx(280, 1)]>>
    /\ inventory = Rows(1, [room_type |-> "Deluxe"])
    /\ bookings = <<>>
    /\ competitor_rates
         \in {<<>>,
              <<ScrapedRow(ApiCompetitor, Today, "Deluxe", Fx(140, 1), TRUE, 0),
                ScrapedRow(ScrapingCompetitor, Today, "Deluxe", Fx(420, 1), FALSE, 0)>>}
    /\ event_multipliers = <<>>
    /\ forecast_data = <<>>
    /\ price_history = <<>>
    /\ engine = PricingEngineInit
    /\ result = NoResult
    /\ callers = <<>>

IngestNext ==
    \E competitors \in CompetitorLists, days_ahead \in DaysAhead :
        ingest_competitor_data(competitors, days_ahead)

IngestSpec == IngestInit /\ [][IngestNext]_vars

\* the key of a competitor_rates row
rate_key(row) == <<row.competitor_id, row.room_type, row.date>>

\* table holds at most one row per (competitor_id, room_type, date)
OneRowPerKey(table) ==
    \A i, j \in 1..Len(table) : rate_key(table[i]) = rate_key(table[j]) => i = j

\* C27: the store holds at most one CompetitorRate row per (competitor_id,
\* room_type, date) before and after every ingest_competitor_data run; a run
\* keeps every stored row in its place with its key, so a rate ingested for
\* a key that has a row changes that row's rate, availability and scraped_at
\* and adds no row for the key.
C27_OneRatePerKey ==
    /\ OneRowPerKey(competitor_rates)
    /\ [][/\ OneRowPerKey(competitor_rates')
          /\ Len(competitor_rates') >= Len(competitor_rates)
          /\ \A i \in 1..Len(competitor_rates) :
                /\ rate_key(competitor_rates'[i]) = rate_key(competitor_rates[i])
                /\ \/ competitor_rates'[i] = competitor_rates[i]
                   \/ competitor_rates'[i].scraped_at > competitor_rates[i].scraped_at]_vars

\* the row stored for (Voco-Dubai, Deluxe, today) before the first run was
\* updated by a second run, and a row was added for tomorrow
C27_Witness ==
    /\ Len(competitor_rates) = 3
    /\ competitor_rates[1].competitor_id = ApiCompetitor
    /\ competitor_rates[1].date = Today
    /\ competitor_rates[1].scraped_at = 2
    /\ competitor_rates[1].rate = MulFx(Fx(280, 1), Fx(13, 10))
    /\ ~competitor_rates[1].availability
    /\ competitor_rates[2].scraped_at = 0
    /\ competitor_rates[3].date = Today + 1
    /\ competitor_rates[3].scraped_at = 1

----------------------------------------------------------------------------
(* Two DataIngestionPipeline instances writing forecast_data, checked under
   PaceSpec.  Each pipeline has its own session on the same SQLite file:
   forecast_data is the committed table; callers holds, for each pipeline,
   the work of its session that is not committed.  The forecast_data rows
   carry booking_pace here. *)

Pipelines == {"P1", "P2"}

\* _update_forecast_with_pace covers today to today + MaxPaceDays
MaxPaceDays == 1

\* pace_metrics['recent_pace'] of a run: no booking, or one, in the last 7 days
Paces == {0, Fx(1, 7)}

\* a session at the start of _update_forecast_with_pace: i is the offset of
\* current_date from today, ops the inserts and updates of the session not
\* yet committed, locked whether they were flushed (the session then holds
\* the write lock of the database)
StartPace(pace) ==
    [status |-> "running", pace |-> pace, i |-> 0, ops |-> <<>>, locked |-> FALSE]

PaceInit ==
    /\ room_types = <<[name |-> "Deluxe", base_rate |-> Fx(280, 1)]>>
    /\ inventory = Rows(1, [room_type |-> "Deluxe"])
    /\ bookings = <<>>
    /\ competitor_rates = <<>>
    /\ event_multipliers = <<>>
    /\ forecast_data
         \in {<<>>,
              <<[room_type |-> "Deluxe", date |-> Today, forecasted_demand |-> Fx(90, 100),
                 booking_pace |-> 0, created_at |-> Today - 1]>>}
    /\ price_history = <<>>
    /\ engine = PricingEngineInit
    /\ result = NoResult
    /\ callers \in [Pipelines -> {StartPace(pace) : pace \in Paces}]

\* another session holds the write lock
LockedByOther(p) == \E q \in Pipelines \ {p} : callers[q].locked

\* the rows the ops of a session add to table when they are executed: an
\* insert appends its row, an update sets the booking_pace of a stored row
RECURSIVE apply_ops(_, _, _)
apply_ops(table, ops, n) ==
    IF n > Len(ops) THEN table
    ELSE apply_ops(IF ops[n].op = "insert" THEN Append(table, ops[n].row)
                   ELSE [table EXCEPT ![ops[n].at].booking_pace = ops[n].booking_pace],
                   ops, n + 1)

\* one iteration of the loop of _update_forecast_with_pace: the query, which
\* flushes the session first and sees the committed rows and the session's
\* own, then the update of the row found or the add of a new one
UpdateForecastWithPace(p) ==
    /\ callers[p].status = "running"
    /\ callers[p].i <= MaxPaceDays
    /\ (callers[p].ops # <<>> /\ ~callers[p].locked) => ~LockedByOther(p)
    /\ LET current_date == Today + callers[p].i
           visible == apply_ops(forecast_data, callers[p].ops, 1)
           found == {k \in 1..Len(visible) : /\ visible[k].room_type = "Deluxe"
                                             /\ visible[k].date = current_date}
           existing_forecast == {k \in found : \A j \in found : k <= j}
           op == IF existing_forecast # {}
                 THEN [op |-> "update", at |-> CHOOSE k \in existing_forecast : TRUE,
                       booking_pace |-> callers[p].pace]
                 ELSE [op |-> "insert",
                       row |-> [room_type |-> "Deluxe", date |-> current_date,
                                forecasted_demand |-> Fx(75, 100),
                                booking_pace |-> callers[p].pace,
                                created_at |-> Today]]
       IN  callers' = [callers EXCEPT ![p].ops = Append(@, op),
                                      ![p].locked = callers[p].ops # <<>>,
                                      ![p].i = @ + 1]
    /\ UNCHANGED <<store, price_history, engine, result>>

\* session.commit() of the next ingest_pms_data or ingest_competitor_data of
\* the pipeline: the session's work is flushed and committed
CommitSession(p) ==
    /\ callers[p].status = "running"
    /\ callers[p].i > MaxPaceDays
    /\ ~LockedByOther(p)
    /\ forecast_data' = apply_ops(forecast_data, callers[p].ops, 1)
    /\ callers' = [callers EXCEPT ![p].status = "committed", ![p].ops = <<>>,
                                  ![p].locked = FALSE]
    /\ UNCHANGED <<room_types, inventory, bookings, competitor_rates, event_multipliers,
                   price_history, engine, result>>

\* close(): session.close() discards the work that is not committed
CloseSession(p) ==
    /\ callers[p].status = "running"
    /\ callers[p].i > MaxPaceDays
    /\ callers' = [callers EXCEPT ![p].status = "closed", ![p].ops = <<>>,
                                  ![p].locked = FALSE]
    /\ UNCHANGED <<store, price_history, engine, result>>

\* the session waits for the write lock another session holds until the
\* busy timeout: OperationalError (database is locked), its work is lost
LockTimeout(p) ==
    /\ callers[p].status = "running"
    /\ callers[p].ops # <<>> /\ ~callers[p].locked
    /\ LockedByOther(p)
    /\ callers' = [callers EXCEPT ![p].status = "failed", ![p].ops = <<>>]
    /\ UNCHANGED <<store, price_history, engine, result>>

PaceNext ==
    \E p \in Pipelines :
        \/ UpdateForecastWithPace(p)
        \/ CommitSession(p)
        \/ CloseSession(p)
        \/ LockTimeout(p)

PaceSpec == PaceInit /\ [][PaceNext]_vars

\* C28: under every interleaving of two pipelines running
\* _update_forecast_with_pace for the same room type, forecast_data holds at
\* most one row per (room_type, date), so that the first row of a key, which
\* the pricing engine reads, is the only one.
C28_OneForecastPerKey ==
    \A i, j \in 1..Len(forecast_data) :
        (/\ forecast_data[i].room_type = forecast_data[j].room_type
         /\ forecast_data[i].date = forecast_data[j].date) => i = j

----------------------------------------------------------------------------
(* ForecastingEngine.analyze_booking_patterns, checked under PatternSpec *)

\* bookings are created on at most this many days
MaxBookingDays == 8

\* the lead times of the stored bookings, taken in turn: the ends of the four
\* buckets of the lead-time distribution
LeadTimes == <<0, 1, 7, 8, 30, 31>>

\* the bookings of Deluxe: counts[k] bookings (1 or 2) created k + 1 days ago
\* for k in 1..n, with the lead times of LeadTimes in turn; with late, the
\* first of them is created two days after its check-in
DeluxeBookings(n, counts, late) ==
    LET slots == SelectSeq([s \in 1..(2 * n) |-> s],
                           LAMBDA s : ((s + 1) % 2) + 1 <= counts[(s + 1) \div 2])
    IN  [m \in 1..Len(slots) |->
            LET s == slots[m]
                created_at == Today - 1 - ((s + 1) \div 2)
                lead_time == IF late /\ m = 1 THEN -2 ELSE LeadTimes[(s % 6) + 1]
            IN  [room_type |-> "Deluxe", checkin |-> created_at + lead_time,
                 created_at |-> created_at]]

\* the runs start with a Club King booking created yesterday, a Deluxe
\* booking created 70 days ago, and the Deluxe bookings of up to
\* MaxBookingDays days
PatternInit ==
    /\ room_types = <<[name |-> "Deluxe", base_rate |-> Fx(280, 1)]>>
    /\ inventory = Rows(1, [room_type |-> "Deluxe"])
    /\ \E n \in 0..MaxBookingDays, late \in BOOLEAN :
          \E counts \in [1..n -> {1, 2}] :
             bookings = <<[room_type |-> "Club King", checkin |-> Today + 2,
                           created_at |-> Today - 1],
                          [room_type |-> "Deluxe", checkin |-> Today - 60,
                           created_at |-> Today - 70]>>
                        \o DeluxeBookings(n, counts, late)
    /\ competitor_rates = InitialCompetitorRates
    /\ event_multipliers = <<>>
    /\ forecast_data = InitialForecastData
    /\ price_history = <<>>
    /\ engine = PricingEngineInit
    /\ result = NoResult
    /\ callers = <<>>

AnalyzeBookingPatterns(room_type, days_back) ==
    /\ result' = [args |-> [room_type |-> room_type, days_back |-> days_back]]
                 @@ analyze_booking_patterns(room_type, days_back)
    /\ UNCHANGED <<room_types, inventory, bookings, competitor_rates, event_multipliers,
                   forecast_data, price_history, engine, callers>>

\* room_type None or Deluxe, days_back 60 (the default) or 5
PatternNext ==
    \E room_type \in {"", "Deluxe"}, days_back \in {60, 5} :
        AnalyzeBookingPatterns(room_type, days_back)

PatternSpec == PatternInit /\ [][PatternNext]_vars

\* r is what an analyze_booking_patterns call returned
IsPatternCall(r) == "args" \in DOMAIN r /\ "days_back" \in DOMAIN r.args

\* the bookings the call that returned r analysed, as row numbers
AnalysedBookings(r) ==
    {i \in 1..Len(bookings) :
        /\ bookings[i].created_at >= Today - r.args.days_back
        /\ bookings[i].created_at <= Today
        /\ (r.args.room_type = "" \/ bookings[i].room_type = r.args.room_type)}

\* the days on which bookings of B were created
BookingDays(B) == {bookings[i].created_at : i \in B}

\* the number of bookings of B created on the days of D
CreatedOn(B, D) == Cardinality({i \in B : bookings[i].created_at \in D})

\* the (at most) 7 latest and the (at most) 7 earliest of the days of D
Latest7(D) == {d \in D : Cardinality({e \in D : e > d}) < 7}

Earliest7(D) == {d \in D : Cardinality({e \in D : e < d}) < 7}

\* the trend of the daily counts of B: the mean of the latest 7 against the
\* mean of the earliest 7
TrendOf(B) ==
    LET recent  == CreatedOn(B, Latest7(BookingDays(B)))
        earlier == CreatedOn(B, Earliest7(BookingDays(B)))
        days_recent  == Cardinality(Latest7(BookingDays(B)))
        days_earlier == Cardinality(Earliest7(BookingDays(B)))
    IN  IF 10 * recent * days_earlier > 11 * earlier * days_recent THEN "accelerating"
        ELSE IF 10 * recent * days_earlier < 9 * earlier * days_recent THEN "decelerating"
        ELSE "stable"

\* C29 as stated: the trend is always 'accelerating', 'decelerating' or
\* 'stable', by the mean of the most recent 7 daily counts against 1.1 and
\* 0.9 times the mean of the earliest 7.
C29_TrendIsOneOfThree ==
    (IsPatternCall(result) /\ result.kind = "patterns") =>
        /\ result.booking_velocity_trend \in {"accelerating", "decelerating", "stable"}
        /\ result.booking_velocity_trend = TrendOf(AnalysedBookings(result))

\* C29 amended: the trend is 'insufficient_data' when the bookings analysed
\* were created on fewer than 7 days, and otherwise 'accelerating',
\* 'decelerating' or 'stable', by the mean of the most recent 7 daily counts
\* against 1.1 and 0.9 times the mean of the earliest 7.
C29_TrendOfSevenDaysOrMore ==
    (IsPatternCall(result) /\ result.kind = "patterns") =>
        LET B == AnalysedBookings(result)
        IN  result.booking_velocity_trend
              = (IF Cardinality(BookingDays(B)) < 7 THEN "insufficient_data"
                 ELSE TrendOf(B))

\* bookings of eight days were analysed, one a day on the earlier days and
\* two a day on the later ones: 'accelerating'
C29_Witness ==
    /\ IsPatternCall(result) /\ result.kind = "patterns"
    /\ result.args.room_type = "Deluxe"
    /\ Cardinality(BookingDays(AnalysedBookings(result))) = 8
    /\ CreatedOn(AnalysedBookings(result), {Today - 2}) = 2
    /\ CreatedOn(AnalysedBookings(result), {Today - 9}) = 1
    /\ result.booking_velocity_trend = "accelerating"

\* C30: in every result of analyze_booking_patterns that is not an error the
\* four lead-time buckets partition the bookings analysed: each booking is
\* counted in exactly one of them, so the four counts sum to total_bookings,
\* the number of bookings analysed, also when bookings were created after
\* their check-in date.
C30_BucketsPartitionBookings ==
    (IsPatternCall(result) /\ result.kind = "patterns") =>
        LET d == result.lead_time_distribution
        IN  /\ result.total_bookings = Cardinality(AnalysedBookings(result))
            /\ d.same_day + d.days_1_7 + d.days_8_30 + d.days_31 = result.total_bookings

====
